---- MODULE Spec2Model ----
(***************************************************************************)
(* Chunked image transfer over a LoRa serial link: the sender of           *)
(* send_image.py (bulk send, END, NACK wait, selective retransmission)     *)
(* and the receiver of receive_image.py (frame extraction from a byte      *)
(* buffer, chunk validation, END / timeout inference, NACK list, ACK wait, *)
(* reassembly).  Frames are sequences of bytes (0..255); the two serial    *)
(* directions are byte queues.  Time is counted in whole seconds.          *)
(***************************************************************************)
EXTENDS Integers, Sequences, FiniteSets, Bags, TLC

\* ------------------------------------------------------------------------
\* Program constants
\* ------------------------------------------------------------------------
CHUNK_SIZE == 200
NACK_TIMEOUT == 10
MAX_RETRY_ROUNDS == 3
RECV_TIMEOUT == 15
NACK_ACK_TIMEOUT == 3
MAX_NACK_RETRIES == 3
SYNC_BYTE == 126
PKT_DATA == 1
PKT_END == 255
PKT_ACK == 170
PKT_NACK == 221
END_SEQ == 65535
ACK_SEQ == 0
S_MY_ADDR == 0
S_DEST_ADDR == 0
R_MY_ADDR == 0
S_FREQ == 433
R_FREQ == 868
\* sx126x derives the frequency offset byte from the configured frequency
S_offset_freq == S_FREQ - 410
R_offset_freq == R_FREQ - 850

\* ------------------------------------------------------------------------
\* Bounds of the model
\* ------------------------------------------------------------------------
\* DATA frames the link may lose in the bulk-send pass
MaxLost == 1
\* byte strings the environment may put on a serial line (noise, or frames
\* of a peer that is not modelled in that specification)
MaxInject == 2
\* serial reads that may return only a part of the pending bytes
MaxSplits == 2
\* byte strings that may reach the receiver in SpecSave: a NACK exchange and
\* the retransmission after it are three of them
MaxSaveInject == 3

\* ------------------------------------------------------------------------
\* Bytes and sequences
\* ------------------------------------------------------------------------
Min(a, b) == IF a < b THEN a ELSE b
Max(a, b) == IF a > b THEN a ELSE b
Hi(x) == (x \div 256) % 256
Lo(x) == x % 256
U16(h, l) == h * 256 + l

\* Python slice s[from : from + n] with a 0-based start
Slice(s, from, n) == SubSeq(s, from + 1, Min(from + n, Len(s)))
\* Python slice s[from:]
From(s, from) == SubSeq(s, from + 1, Len(s))

\* sum(s): the size of the bag that holds each index i of s s[i] times
SumSeq(s) == BagCardinality([i \in {j \in DOMAIN s : s[j] > 0} |-> s[i]])

\* concatenation of ss[lo..hi], by halves
RECURSIVE ConcatRange(_, _, _)
ConcatRange(ss, lo, hi) ==
    IF lo > hi THEN << >>
    ELSE IF lo = hi THEN ss[lo]
    ELSE LET mid == (lo + hi) \div 2
         IN  ConcatRange(ss, lo, mid) \o ConcatRange(ss, mid + 1, hi)
Concat(ss) == ConcatRange(ss, 1, Len(ss))

\* ImageSender.checksum / ImageReceiver.checksum
checksum(data) == SumSeq(data) % 256

\* ------------------------------------------------------------------------
\* Sender: chunk file
\* ------------------------------------------------------------------------
\* a division that rounds down
FloorDiv(a, b) == a \div b
\* math.ceil(file_size / CHUNK_SIZE)
CeilDiv(a, b) == (a + b - 1) \div b

\* the records chunk_image_to_file writes after the 8-byte header
RECURSIVE ChunkRecords(_, _, _)
ChunkRecords(image_data, seq, total) ==
    IF seq >= total THEN << >>
    ELSE LET chunk_data == Slice(image_data, seq * CHUNK_SIZE, CHUNK_SIZE)
         IN  << Hi(seq), Lo(seq), checksum(chunk_data) >> \o chunk_data
             \o ChunkRecords(image_data, seq + 1, total)

chunk_image_to_file(image_data, fid) ==
    LET file_size == Len(image_data)
        total == CeilDiv(file_size, CHUNK_SIZE)
    IN  << Hi(fid), Lo(fid), Hi(total), Lo(total),
           (file_size \div 16777216) % 256, (file_size \div 65536) % 256,
           (file_size \div 256) % 256, file_size % 256 >>
        \o ChunkRecords(image_data, 0, total)

\* ImageSender.build_packet: 6 addressing bytes, then type, file_id, seq, data
S_build_packet(pkt_type, fid, seq, data) ==
    << Hi(S_DEST_ADDR), Lo(S_DEST_ADDR), S_offset_freq,
       Hi(S_MY_ADDR), Lo(S_MY_ADDR), S_offset_freq >>
    \o << pkt_type, Hi(fid), Lo(fid), Hi(seq), Lo(seq) >> \o data

\* the index retransmit_chunks builds: chunk_positions[seq] = (pos, size),
\* here the sequence whose element seq + 1 is the entry of seq
RECURSIVE ChunkPositions(_, _)
ChunkPositions(cf, pos) ==
    IF Len(Slice(cf, pos, 2)) < 2 THEN << >>
    ELSE LET checksum_byte == Slice(cf, pos + 2, 1)
             chunk_data == Slice(cf, pos + 3, CHUNK_SIZE)
         IN  << [pos |-> pos, size |-> Len(checksum_byte \o chunk_data)] >>
             \o ChunkPositions(cf, pos + 2 + 1 + Len(chunk_data))

\* the DATA frames retransmit_chunks sends for missing_seqs, in order
RECURSIVE RetransmitFrom(_, _, _, _)
RetransmitFrom(cf, positions, fid, missing_seqs) ==
    IF missing_seqs = << >> THEN << >>
    ELSE LET seq == missing_seqs[1]
             rest == RetransmitFrom(cf, positions, fid, Tail(missing_seqs))
         IN  IF seq + 1 \notin DOMAIN positions THEN rest
             ELSE LET pos == positions[seq + 1].pos
                      checksum_byte == Slice(cf, pos + 2, 1)
                      chunk_data == Slice(cf, pos + 3, CHUNK_SIZE)
                  IN  << S_build_packet(PKT_DATA, fid, seq,
                                        checksum_byte \o chunk_data) >> \o rest

\* a sender that indexes the chunk file from its first byte, header included
retransmit_chunks_headerless(cf, fid, missing_seqs) == RetransmitFrom(cf, ChunkPositions(cf, 0), fid, missing_seqs)
retransmit_chunks(cf, fid, missing_seqs) ==
    RetransmitFrom(cf, ChunkPositions(cf, 8), fid, missing_seqs)

\* ------------------------------------------------------------------------
\* Sender: NACK parsing in wait_for_nack
\* ------------------------------------------------------------------------
\* an extraction loop without the test on the length of the payload
ExtractIdxAll(payload, num_missing) == [i \in 1..num_missing |-> i - 1]
\* the values of i for which the extraction loop of wait_for_nack reads
\* payload[offset] and payload[offset + 1], offset = 5 + i * 2
ExtractIdx(payload, num_missing) ==
    SelectSeq([i \in 1..num_missing |-> i - 1],
              LAMBDA i : (5 + i * 2) + 1 < Len(payload))

\* the sequence numbers the extraction loop of wait_for_nack appends
ExtractSeqs(payload, num_missing) ==
    LET idx == ExtractIdx(payload, num_missing)
    IN  [k \in 1..Len(idx) |->
            U16(payload[5 + idx[k] * 2 + 1], payload[5 + idx[k] * 2 + 2])]

\* what one read of wait_for_nack does with the bytes pkt:
\* "continue" (keep waiting) or "return" with the list missing_seqs
ParseNack(pkt, fid) ==
    IF Len(pkt) < 6 + 5 THEN [kind |-> "continue", seqs |-> << >>]
    ELSE LET payload == From(pkt, 6)
             pkt_type == payload[1]
             recv_file_id == U16(payload[2], payload[3])
         IN  IF pkt_type = PKT_NACK /\ recv_file_id = fid
             THEN LET num_missing == U16(payload[4], payload[5])
                  IN  IF num_missing = 0
                      THEN [kind |-> "return", seqs |-> << >>]
                      ELSE [kind |-> "return",
                            seqs |-> ExtractSeqs(payload, num_missing)]
             ELSE [kind |-> "continue", seqs |-> << >>]

\* the offsets (0-based) at which one read of wait_for_nack indexes payload
NackReads(pkt, fid) ==
    IF Len(pkt) < 6 + 5 THEN {}
    ELSE LET payload == From(pkt, 6)
             num_missing == U16(payload[4], payload[5])
             idx == ExtractIdx(payload, num_missing)
         IN  {0, 1, 2} \cup
             IF payload[1] = PKT_NACK /\ U16(payload[2], payload[3]) = fid
             THEN {3, 4} \cup
                  IF num_missing = 0 THEN {}
                  ELSE UNION { {5 + idx[k] * 2, 5 + idx[k] * 2 + 1} :
                                 k \in DOMAIN idx }
             ELSE {}

\* ------------------------------------------------------------------------
\* Receiver: frame construction
\* ------------------------------------------------------------------------
\* ImageReceiver.build_packet: sync byte, 6 addressing bytes, then payload
R_build_packet(dest_addr, pkt_type, fid, seq, data) ==
    << SYNC_BYTE >>
    \o << Hi(dest_addr), Lo(dest_addr), R_offset_freq,
          Hi(R_MY_ADDR), Lo(R_MY_ADDR), R_offset_freq >>
    \o << pkt_type, Hi(fid), Lo(fid), Hi(seq), Lo(seq) >> \o data

max_seqs_per_packet == 228 \div 2

\* a receiver that does not truncate the list
NackListAll(missing_seqs) == missing_seqs
\* the sequence numbers send_nack_list puts in the frame
NackList(missing_seqs) ==
    IF Len(missing_seqs) > max_seqs_per_packet
    THEN SubSeq(missing_seqs, 1, max_seqs_per_packet)
    ELSE missing_seqs

\* the frame send_nack_list writes
send_nack_list(sender_addr, fid, missing_seqs) ==
    LET listed == NackList(missing_seqs)
        num_missing == Len(listed)
        seq_bytes == [i \in 1..(2 * num_missing) |->
                         IF i % 2 = 1 THEN Hi(listed[(i + 1) \div 2])
                         ELSE Lo(listed[i \div 2])]
    IN  R_build_packet(sender_addr, PKT_NACK, fid, num_missing, seq_bytes)

\* ------------------------------------------------------------------------
\* Receiver: transfers
\* ------------------------------------------------------------------------
\* Python None in total_expected
NoneVal == -1
MaxOf(S) == CHOOSE x \in S : \A y \in S : y <= x
MinOf(S) == CHOOSE x \in S : \A y \in S : x <= y

\* Python dicts: d[k] = v, del d[k], {}
Put(d, k, v) == [x \in DOMAIN d \cup {k} |-> IF x = k THEN v ELSE d[x]]
Del(d, k) == [x \in DOMAIN d \ {k} |-> d[x]]
EmptyDict == [x \in {} |-> 0]

\* a transfer state that is created with its END already seen
NewTransferEnded(sender_addr) ==
    [sender_addr |-> sender_addr, chunks |-> EmptyDict,
     total_expected |-> NoneVal, end_received |-> TRUE]
\* the transfer state process_data_packet creates for an unseen file_id
NewTransfer(sender_addr) ==
    [sender_addr |-> sender_addr, chunks |-> EmptyDict,
     total_expected |-> NoneVal, end_received |-> FALSE]

\* a receiver that skips the checksum test
ChecksumAlwaysOk(checksum_byte, chunk_data) == TRUE
\* process_data_packet: the checksum test
ChecksumOk(checksum_byte, chunk_data) == checksum_byte = checksum(chunk_data)
\* a receiver that appends a repeated chunk to the bytes it holds
StoreChunkAppend(chunks, seq, chunk_data) ==
    Put(chunks, seq, IF seq \in DOMAIN chunks THEN chunks[seq] \o chunk_data
                     ELSE chunk_data)
\* process_data_packet: transfer["chunks"][seq] = chunk_data
StoreChunk(chunks, seq, chunk_data) == Put(chunks, seq, chunk_data)

\* a receiver that starts a new transfer state with every chunk
process_data_packet_fresh(T, ord, sender_addr, fid, seq, checksum_byte, chunk_data) ==
    IF ~ChecksumOk(checksum_byte, chunk_data)
    THEN [transfers |-> T, order |-> ord]
    ELSE LET t0 == NewTransfer(sender_addr)
             t1 == [t0 EXCEPT !.chunks = StoreChunk(@, seq, chunk_data)]
         IN  [transfers |-> Put(T, fid, t1),
              order |-> IF fid \in DOMAIN T THEN ord ELSE Append(ord, fid)]
\* a receiver whose transfers share one chunk map
process_data_packet_shared(T, ord, sender_addr, fid, seq, checksum_byte, chunk_data) ==
    IF ~ChecksumOk(checksum_byte, chunk_data)
    THEN [transfers |-> T, order |-> ord]
    ELSE LET t0 == IF fid \in DOMAIN T THEN T[fid] ELSE NewTransfer(sender_addr)
             T1 == Put(T, fid, t0)
         IN  [transfers |->
                  [f \in DOMAIN T1 |->
                      [T1[f] EXCEPT !.chunks = StoreChunk(@, seq, chunk_data)]],
              order |-> IF fid \in DOMAIN T THEN ord ELSE Append(ord, fid)]
\* process_data_packet: self.transfers and its key order afterwards
process_data_packet(T, ord, sender_addr, fid, seq, checksum_byte, chunk_data) ==
    IF ~ChecksumOk(checksum_byte, chunk_data)
    THEN [transfers |-> T, order |-> ord]
    ELSE LET t0 == IF fid \in DOMAIN T THEN T[fid] ELSE NewTransfer(sender_addr)
             t1 == [t0 EXCEPT !.chunks = StoreChunk(@, seq, chunk_data)]
         IN  [transfers |-> Put(T, fid, t1),
              order |-> IF fid \in DOMAIN T THEN ord ELSE Append(ord, fid)]

\* a receiver that creates the transfer of an END with an unseen file_id
process_end_packet_creates(T, ord, sender_addr, fid, total_chunks) ==
    LET t0 == IF fid \in DOMAIN T THEN T[fid] ELSE NewTransfer(sender_addr)
        t1 == [t0 EXCEPT !.end_received = TRUE,
                         !.total_expected = total_chunks]
    IN  [known |-> TRUE, transfers |-> Put(T, fid, t1),
         order |-> IF fid \in DOMAIN T THEN ord ELSE Append(ord, fid)]
\* process_end_packet up to its call of handle_transfer_complete: the END
\* of an unknown file_id is ignored (known is FALSE)
process_end_packet(T, ord, sender_addr, fid, total_chunks) ==
    IF fid \notin DOMAIN T
    THEN [known |-> FALSE, transfers |-> T, order |-> ord]
    ELSE [known |-> TRUE,
          transfers |-> [T EXCEPT ![fid].end_received = TRUE,
                                   ![fid].total_expected = total_chunks],
          order |-> ord]

\* handle_transfer_complete: total_expected, inferred when it is None
TotalExpected(transfer) ==
    IF transfer.total_expected = NoneVal
    THEN IF DOMAIN transfer.chunks # {}
         THEN MaxOf(DOMAIN transfer.chunks) + 1 ELSE 0
    ELSE transfer.total_expected

\* a receiver that takes the largest stored sequence number as the total
InferTotalNoPlus(chunks) ==
    IF DOMAIN chunks # {} THEN MaxOf(DOMAIN chunks) ELSE 0
\* the timeout check of receive_loop: total_expected inferred from the
\* largest stored sequence number
InferTotal(chunks) ==
    LET max_seq == IF DOMAIN chunks # {} THEN MaxOf(DOMAIN chunks) ELSE 0
    IN  max_seq + 1

\* a receiver that finds no sequence number missing
MissingSeqsNone(transfer) == << >>
\* a receiver whose range of sequence numbers holds total_expected itself
MissingSeqsInclusive(transfer) == SelectSeq([i \in 1..(TotalExpected(transfer) + 1) |-> i - 1], LAMBDA seq : seq \notin DOMAIN transfer.chunks)
\* handle_transfer_complete: missing_seqs
MissingSeqs(transfer) ==
    SelectSeq([i \in 1..TotalExpected(transfer) |-> i - 1],
              LAMBDA seq : seq \notin DOMAIN transfer.chunks)

\* sorted(chunks.keys())
RECURSIVE SortedKeys(_)
SortedKeys(S) ==
    IF S = {} THEN << >>
    ELSE LET m == MinOf(S) IN << m >> \o SortedKeys(S \ {m})

\* save_image: the bytes written
AssembleFile(chunks) ==
    LET sorted_seqs == SortedKeys(DOMAIN chunks)
    IN  Concat([k \in 1..Len(sorted_seqs) |-> chunks[sorted_seqs[k]]])

\* wait_for_ack: the test on the bytes of one read
IsAckFor(pkt, fid) ==
    /\ Len(pkt) >= 6 + 5
    /\ LET payload == From(pkt, 6)
       IN  /\ payload[1] = PKT_ACK
           /\ U16(payload[2], payload[3]) = fid

\* the offsets (0-based) at which one read of wait_for_ack indexes payload
AckReads(pkt) == IF Len(pkt) < 6 + 5 THEN {} ELSE {0, 1, 2}

\* ------------------------------------------------------------------------
\* Receiver: frame extraction (the while loop of receive_loop)
\* ------------------------------------------------------------------------
\* a search that returns the last occurrence (rfind)
FindLast(buf, b, start) ==
    LET hits == {i \in start..(Len(buf) - 1) : buf[i + 1] = b}
    IN  IF hits = {} THEN -1 ELSE MaxOf(hits)
\* buffer.find(bytes([b]), start)
Find(buf, b, start) ==
    LET hits == {i \in start..(Len(buf) - 1) : buf[i + 1] = b}
    IN  IF hits = {} THEN -1 ELSE MinOf(hits)

KnownTypes == {PKT_DATA, PKT_END, PKT_ACK, PKT_NACK}

\* expected_size of a frame of a known type at the start of buf
ExpectedSize(buf, pkt_type) ==
    IF pkt_type = PKT_DATA THEN 1 + 6 + 1 + 2 + 2 + 1 + CHUNK_SIZE
    ELSE IF pkt_type = PKT_END THEN 1 + 6 + 1 + 2 + 2
    ELSE IF pkt_type = PKT_ACK THEN 1 + 6 + 1 + 2 + 2
    ELSE 1 + 6 + 1 + 2 + 2 + U16(buf[11], buf[12]) * 2

Iter(kind, buf, pkt) == [kind |-> kind, buffer |-> buf, pkt |-> pkt]

\* a frame loop that takes a frame it holds a part of for a false start
FrameIterDropPartial(buf) ==
    IF Len(buf) < 12 THEN Iter("exit", buf, << >>)
    ELSE IF buf[1] # SYNC_BYTE
    THEN LET sync_pos == Find(buf, SYNC_BYTE, 1)
         IN  IF sync_pos = -1
             THEN Iter("break", From(buf, Len(buf) - 1), << >>)
             ELSE Iter("continue", From(buf, sync_pos), << >>)
    ELSE LET pkt_type == buf[8]
         IN  IF pkt_type \notin KnownTypes
             THEN Iter("continue", From(buf, 1), << >>)
             ELSE LET expected_size == ExpectedSize(buf, pkt_type)
                  IN  IF Len(buf) < expected_size
                      THEN Iter("continue", From(buf, 1), << >>)
                      ELSE Iter("emit", From(buf, expected_size),
                                Slice(buf, 0, expected_size))
\* a frame loop that drops a whole header on an unknown type byte
FrameIterDropHeader(buf) ==
    IF Len(buf) < 12 THEN Iter("exit", buf, << >>)
    ELSE IF buf[1] # SYNC_BYTE
    THEN LET sync_pos == Find(buf, SYNC_BYTE, 1)
         IN  IF sync_pos = -1
             THEN Iter("break", From(buf, Len(buf) - 1), << >>)
             ELSE Iter("continue", From(buf, sync_pos), << >>)
    ELSE LET pkt_type == buf[8]
         IN  IF pkt_type \notin KnownTypes
             THEN Iter("continue", From(buf, 12), << >>)
             ELSE LET expected_size == ExpectedSize(buf, pkt_type)
                  IN  IF Len(buf) < expected_size
                      THEN Iter("break", buf, << >>)
                      ELSE Iter("emit", From(buf, expected_size),
                                Slice(buf, 0, expected_size))
\* a frame loop that keeps the buffer as it is on an unknown type byte
FrameIterNoDrop(buf) ==
    IF Len(buf) < 12 THEN Iter("exit", buf, << >>)
    ELSE IF buf[1] # SYNC_BYTE
    THEN LET sync_pos == Find(buf, SYNC_BYTE, 1)
         IN  IF sync_pos = -1
             THEN Iter("break", From(buf, Len(buf) - 1), << >>)
             ELSE Iter("continue", From(buf, sync_pos), << >>)
    ELSE LET pkt_type == buf[8]
         IN  IF pkt_type \notin KnownTypes
             THEN Iter("continue", buf, << >>)
             ELSE LET expected_size == ExpectedSize(buf, pkt_type)
                  IN  IF Len(buf) < expected_size
                      THEN Iter("break", buf, << >>)
                      ELSE Iter("emit", From(buf, expected_size),
                                Slice(buf, 0, expected_size))
\* a frame loop that leaves the last byte of an extracted frame in the buffer
FrameIterOverlap(buf) ==
    IF Len(buf) < 12 THEN Iter("exit", buf, << >>)
    ELSE IF buf[1] # SYNC_BYTE
    THEN LET sync_pos == Find(buf, SYNC_BYTE, 1)
         IN  IF sync_pos = -1
             THEN Iter("break", From(buf, Len(buf) - 1), << >>)
             ELSE Iter("continue", From(buf, sync_pos), << >>)
    ELSE LET pkt_type == buf[8]
         IN  IF pkt_type \notin KnownTypes
             THEN Iter("continue", From(buf, 1), << >>)
             ELSE LET expected_size == ExpectedSize(buf, pkt_type)
                  IN  IF Len(buf) < expected_size
                      THEN Iter("break", buf, << >>)
                      ELSE Iter("emit", From(buf, expected_size - 1),
                                Slice(buf, 0, expected_size))
\* one iteration of the frame loop on buf: "exit" (the loop condition is
\* false), "break", "continue", or "emit" with the extracted frame
FrameIter(buf) ==
    IF Len(buf) < 12 THEN Iter("exit", buf, << >>)
    ELSE IF buf[1] # SYNC_BYTE
    THEN LET sync_pos == Find(buf, SYNC_BYTE, 1)
         IN  IF sync_pos = -1
             THEN Iter("break", From(buf, Len(buf) - 1), << >>)
             ELSE Iter("continue", From(buf, sync_pos), << >>)
    ELSE LET pkt_type == buf[8]
         IN  IF pkt_type \notin KnownTypes
             THEN Iter("continue", From(buf, 1), << >>)
             ELSE LET expected_size == ExpectedSize(buf, pkt_type)
                  IN  IF Len(buf) < expected_size
                      THEN Iter("break", buf, << >>)
                      ELSE Iter("emit", From(buf, expected_size),
                                Slice(buf, 0, expected_size))

\* the offsets (0-based) at which one iteration of the frame loop indexes
\* the buffer before it extracts a frame
FrameLoopReads(buf) ==
    IF Len(buf) < 12 THEN {}
    ELSE IF buf[1] # SYNC_BYTE THEN {0}
    ELSE {0, 7} \cup IF buf[8] = PKT_NACK THEN {10, 11} ELSE {}
\* the offsets (0-based) at which the parse and the dispatch index the
\* extracted frame pkt: pkt[8], pkt[9], pkt[4], pkt[5], payload[1..4] and,
\* for DATA, payload[5], where payload is pkt[7:]
DispatchReads(pkt) ==
    {8, 9, 4, 5} \cup {7 + 1, 7 + 2, 7 + 3, 7 + 4}
    \cup IF pkt[8] = PKT_DATA THEN {7 + 5} ELSE {}

\* ------------------------------------------------------------------------
\* State
\* ------------------------------------------------------------------------
VARIABLES
    \* sender (send_image.py)
    image,          \* bytes of the image file
    spc,            \* position of send_image
    file_id,        \* file_id drawn by chunk_image_to_file
    total_chunks,
    chunk_file,     \* bytes of chunks_temp.dat
    cf_pos,         \* read position of send_all_chunks in the chunk file
    bulk_seq,       \* loop variable of send_all_chunks
    retry_round,    \* loop variable of the retry loop
    s_elapsed,      \* seconds since wait_for_nack started
    sent,           \* history: the frames the sender wrote, in order
    waits,          \* history: calls of wait_for_nack so far
    s_pkt,          \* history: the bytes of the read that ended the last wait
    lost,           \* history: sequence numbers lost in the bulk-send pass
    \* serial lines
    s2r,            \* bytes written by the sender, not yet read by the receiver
    r2s,            \* bytes written by the receiver, not yet read by the sender
    inj,            \* history: byte strings put on a line by the environment
    splits,         \* history: serial reads that returned part of what was sent
    \* receiver (receive_image.py)
    rpc,            \* position of receive_loop
    buffer,         \* bytes read and not yet consumed by the frame loop
    transfers,      \* self.transfers: file_id -> transfer state
    t_order,        \* the keys of self.transfers in insertion order
    idle,           \* seconds since last_data_received
    quiet,          \* history: seconds since bytes were last read from the
                    \* serial line, by receive_loop or by wait_for_ack
    wa,             \* the NACK exchange in progress (handle_transfer_complete)
    todo,           \* file_ids the timeout loop has still to visit
    files,          \* output files written: file_id (the file name) -> bytes
    emitted,        \* history: the frames the frame loop extracted, in order
    fed,            \* history: the garbage and the frames put on the receiver's
                    \* line as one stream, in order
    r_last,         \* history: the last frame the frame loop extracted
    r_had,          \* history: r_last's sequence number was already stored
                    \* for its file_id when r_last was dispatched
    nack_log,       \* history: the NACK frames written, in order
    saves           \* history: the transfers save_image was called for, in
                    \* order, each as it was at the call

svars == << image, spc, file_id, total_chunks, chunk_file, cf_pos, bulk_seq,
            retry_round, s_elapsed, sent, waits, s_pkt, lost >>
rvars == << rpc, buffer, transfers, t_order, idle, quiet, wa, todo, files,
            emitted, fed, r_last, r_had, nack_log, saves >>
vars == << svars, rvars, s2r, r2s, inj, splits >>

\* ------------------------------------------------------------------------
\* Inputs
\* ------------------------------------------------------------------------
\* image files: byte i of an image of length L
ImageByte(i) == (i * 37 + 11) % 251
Image(L) == [i \in 1..L |-> ImageByte(i)]
ImageLens == {253, 853}
\* random.randint(0x0100, 0xFFFE)
FileIdMin == 256
FileIdMax == 65534
\* the file_id the sender draws here, and the file_id of another transfer
SenderFileIds == {4660} \cap (FileIdMin..FileIdMax)
OtherFileId == 4660 + 1

\* sizes of one serial read when avail bytes are pending: everything, or a
\* shorter prefix when the rest has not arrived yet
SplitSizes == {1, 12}
ReadSizes(avail) ==
    {k \in SplitSizes : k < avail /\ splits < MaxSplits} \cup {avail}
\* the count of partial reads after a read of n bytes of pending
SplitsAfter(n, pending) == IF n < Len(pending) THEN splits + 1 ELSE splits

\* byte strings that reach the sender's serial line in SpecSend: NACK frames
\* as the receiver builds them, for its file_id and for another, and noise
SenderInputs(fid) ==
    LET n0 == send_nack_list(S_MY_ADDR, fid, << >>)
        n1 == send_nack_list(S_MY_ADDR, fid, << 1 >>)
        n2 == send_nack_list(S_MY_ADDR, fid, << 0, 9 >>)
        nx == send_nack_list(S_MY_ADDR, OtherFileId, << >>)
    IN  { n0, n1, n2, nx, [i \in 1..12 |-> 0] }

\* frames as the frame loop of the receiver expects them: a sender frame
\* after the sync byte
Synced(pkt) == << SYNC_BYTE >> \o pkt
DataFrame(fid, seq, chunk_data) ==
    Synced(S_build_packet(PKT_DATA, fid, seq,
                          << checksum(chunk_data) >> \o chunk_data))
EndFrame(fid, total) == Synced(S_build_packet(PKT_END, fid, total, << >>))
\* chunk contents
ChunkA == [i \in 1..CHUNK_SIZE |-> ImageByte(i)]
ChunkB == [i \in 1..CHUNK_SIZE |-> ImageByte(i + CHUNK_SIZE)]
\* a frame with byte i (1-based) replaced by b
Corrupt(pkt, i, b) == [pkt EXCEPT ![i] = b]

\* byte strings that reach the receiver's serial line in SpecRecv
ReceiverInputs ==
    LET F == 4660
    IN  { DataFrame(F, 0, ChunkA),
          DataFrame(F, 0, ChunkA) \o DataFrame(F, 1, ChunkB),
          Corrupt(DataFrame(F, 1, ChunkB), 20, 0),
          EndFrame(F, 2),
          EndFrame(F, max_seqs_per_packet + 2),
          DataFrame(OtherFileId, 4, ChunkA) \o DataFrame(F, 0, ChunkA),
          S_build_packet(PKT_ACK, F, ACK_SEQ, << >>) }

\* ------------------------------------------------------------------------
\* Sender actions (ImageSender.send_image)
\* ------------------------------------------------------------------------
\* an entry of sent: the frame and the pass of the retry loop that wrote it
\* (0 for the bulk pass and the first END)
Sent(what, round, pkt) == [what |-> what, round |-> round, pkt |-> pkt]

\* file sizes for the chunking alone: empty, one byte, around one and two
\* chunks, three whole chunks, and the sizes above
ChunkLens == {0, 1, 199, 200, 201, 400, 401, 600} \cup ImageLens

\* send_image before its first statement
SStart ==
    /\ spc = "Chunking"
    /\ file_id = 0
    /\ total_chunks = 0
    /\ chunk_file = << >>
    /\ cf_pos = 0
    /\ bulk_seq = 0
    /\ retry_round = 0
    /\ s_elapsed = 0
    /\ sent = << >>
    /\ waits = 0
    /\ s_pkt = << >>
    /\ lost = {}
SInit == image \in {Image(L) : L \in ImageLens} /\ SStart

\* chunk_image_to_file
ChunkImage ==
    /\ spc = "Chunking"
    /\ \E fid \in SenderFileIds :
          /\ file_id' = fid
          /\ chunk_file' = chunk_image_to_file(image, fid)
    /\ total_chunks' = CeilDiv(Len(image), CHUNK_SIZE)
    /\ spc' = "BulkSending"
    /\ bulk_seq' = 0
    /\ cf_pos' = 8
    /\ UNCHANGED << image, retry_round, s_elapsed, sent, waits, s_pkt, lost,
                    s2r, r2s, inj, splits >>
    /\ UNCHANGED rvars

\* one iteration of the loop of send_all_chunks; the link may lose the frame
SendChunk ==
    /\ spc = "BulkSending"
    /\ bulk_seq < total_chunks
    /\ LET checksum_byte == Slice(chunk_file, cf_pos + 2, 1)
           chunk_data == Slice(chunk_file, cf_pos + 3, CHUNK_SIZE)
           packet == S_build_packet(PKT_DATA, file_id, bulk_seq,
                                    checksum_byte \o chunk_data)
       IN  /\ cf_pos' = cf_pos + 2 + Len(checksum_byte) + Len(chunk_data)
           /\ sent' = Append(sent, Sent("bulk", 0, packet))
           /\ \E drop \in BOOLEAN :
                 /\ drop => Cardinality(lost) < MaxLost
                 /\ s2r' = IF drop THEN s2r ELSE s2r \o packet
                 /\ lost' = IF drop THEN lost \cup {bulk_seq} ELSE lost
    /\ bulk_seq' = bulk_seq + 1
    /\ UNCHANGED << image, spc, file_id, total_chunks, chunk_file, retry_round,
                    s_elapsed, waits, s_pkt, r2s, inj, splits >>
    /\ UNCHANGED rvars

\* send_end_packet
EndPacket(fid) == S_build_packet(PKT_END, fid, END_SEQ, << >>)
\* send_ack_for_nack
AckPacket(fid) == S_build_packet(PKT_ACK, fid, ACK_SEQ, << >>)

\* the end of one pass of the retry loop: the next wait, or the else branch
NextRound ==
    IF retry_round + 1 < MAX_RETRY_ROUNDS
    THEN /\ retry_round' = retry_round + 1
         /\ spc' = "AwaitingNack"
         /\ s_elapsed' = 0
         /\ waits' = waits + 1
    ELSE /\ retry_round' = retry_round
         /\ spc' = "Failed"
         /\ s_elapsed' = s_elapsed
         /\ waits' = waits

\* a sender that may write its first END before the bulk pass is over
SendEndEarly ==
    /\ spc = "BulkSending"
    /\ bulk_seq <= total_chunks
    /\ s2r' = s2r \o EndPacket(file_id)
    /\ spc' = "AwaitingNack"
    /\ retry_round' = 0
    /\ s_elapsed' = 0
    /\ sent' = Append(sent, Sent("end", 0, EndPacket(file_id)))
    /\ waits' = 1
    /\ UNCHANGED << image, file_id, total_chunks, chunk_file, cf_pos, bulk_seq,
                    s_pkt, lost, r2s, inj, splits >>
    /\ UNCHANGED rvars
\* the first END after the bulk pass, and the entry in the retry loop
SendEnd ==
    /\ spc = "BulkSending"
    /\ bulk_seq = total_chunks
    /\ s2r' = s2r \o EndPacket(file_id)
    /\ spc' = "AwaitingNack"
    /\ retry_round' = 0
    /\ s_elapsed' = 0
    /\ sent' = Append(sent, Sent("end", 0, EndPacket(file_id)))
    /\ waits' = 1
    /\ UNCHANGED << image, file_id, total_chunks, chunk_file, cf_pos, bulk_seq,
                    s_pkt, lost, r2s, inj, splits >>
    /\ UNCHANGED rvars

SendLog(what, round, pkts) ==
    [k \in 1..Len(pkts) |-> Sent(what, round, pkts[k])]

\* the loop condition of wait_for_nack: time.time() - start_time < timeout
WaitLoopForever(elapsed) == TRUE
WaitLoopCondition(elapsed) == elapsed < NACK_TIMEOUT

\* one read of wait_for_nack and, when it returns a list, the rest of that
\* pass of the retry loop
WaitNackRead ==
    /\ spc = "AwaitingNack"
    /\ WaitLoopCondition(s_elapsed)
    /\ Len(r2s) > 0
    /\ \E n \in ReadSizes(Len(r2s)) :
        LET pkt == SubSeq(r2s, 1, n)
            res == ParseNack(pkt, file_id)
            missing_seqs == res.seqs
            frames == retransmit_chunks(chunk_file, file_id, missing_seqs)
        IN  /\ r2s' = SubSeq(r2s, n + 1, Len(r2s))
            /\ splits' = SplitsAfter(n, r2s)
            /\ IF res.kind = "continue"
               THEN UNCHANGED << spc, retry_round, s_elapsed, sent, waits,
                                 s_pkt, s2r >>
               ELSE IF Len(missing_seqs) = 0
               THEN /\ spc' = "Complete"
                    /\ s_pkt' = pkt
                    /\ UNCHANGED << retry_round, s_elapsed, sent, waits, s2r >>
               ELSE /\ s_pkt' = pkt
                    /\ s2r' = s2r \o AckPacket(file_id) \o Concat(frames)
                                  \o EndPacket(file_id)
                    /\ sent' = sent
                          \o << Sent("ack", retry_round + 1, AckPacket(file_id)) >>
                          \o SendLog("retx", retry_round + 1, frames)
                          \o << Sent("end", retry_round + 1, EndPacket(file_id)) >>
                    /\ NextRound
    /\ UNCHANGED << image, file_id, total_chunks, chunk_file, cf_pos, bulk_seq,
                    lost, inj >>
    /\ UNCHANGED rvars

\* a sender that resends no END after a wait without a NACK
WaitNackTimeoutSilent ==
    /\ spc = "AwaitingNack"
    /\ ~WaitLoopCondition(s_elapsed)
    /\ UNCHANGED << s2r, sent >>
    /\ s_pkt' = << >>
    /\ NextRound
    /\ UNCHANGED << image, file_id, total_chunks, chunk_file, cf_pos, bulk_seq,
                    lost, r2s, inj, splits >>
    /\ UNCHANGED rvars
\* wait_for_nack returns None at its deadline
WaitNackTimeout ==
    /\ spc = "AwaitingNack"
    /\ ~WaitLoopCondition(s_elapsed)
    /\ IF retry_round < MAX_RETRY_ROUNDS - 1
       THEN /\ s2r' = s2r \o EndPacket(file_id)
            /\ sent' = Append(sent, Sent("end", retry_round + 1,
                                         EndPacket(file_id)))
       ELSE UNCHANGED << s2r, sent >>
    /\ s_pkt' = << >>
    /\ NextRound
    /\ UNCHANGED << image, file_id, total_chunks, chunk_file, cf_pos, bulk_seq,
                    lost, r2s, inj, splits >>
    /\ UNCHANGED rvars

SenderNext == ChunkImage \/ SendChunk \/ SendEnd \/ WaitNackRead \/ WaitNackTimeout

\* ------------------------------------------------------------------------
\* Receiver actions (ImageReceiver.receive_loop)
\* ------------------------------------------------------------------------
NoWait == [fid |-> 0, retry |-> 0, ret |-> "", elapsed |-> 0]

RInit ==
    /\ rpc = "poll"
    /\ buffer = << >>
    /\ transfers = EmptyDict
    /\ t_order = << >>
    /\ idle = 0
    /\ quiet = 0
    /\ wa = NoWait
    /\ todo = << >>
    /\ files = EmptyDict
    /\ emitted = << >>
    /\ fed = << >>
    /\ r_last = << >>
    /\ r_had = FALSE
    /\ nack_log = << >>
    /\ saves = << >>

\* the file_ids, in key order, of the transfers without end_received
Unfinished(T, ord) == SelectSeq(ord, LAMBDA f : ~T[f].end_received)

\* where receive_loop goes on after handle_transfer_complete returns
Resume(ret, todoNext) ==
    IF ret = "frames" THEN "frames"
    ELSE IF todoNext = << >> THEN "poll" ELSE "timeouts"

\* the timeout check that ends a poll cycle: the transfers to infer an END
\* for, when nothing was read for longer than RECV_TIMEOUT
EndOfCycle ==
    IF idle > RECV_TIMEOUT /\ Unfinished(transfers, t_order) # << >>
    THEN /\ rpc' = "timeouts"
         /\ todo' = Unfinished(transfers, t_order)
    ELSE /\ rpc' = "poll"
         /\ todo' = << >>

\* an entry of saves: the transfer that save_image reads
Saved(fid, transfer) ==
    [fid |-> fid, end_received |-> transfer.end_received,
     total_expected |-> transfer.total_expected,
     seqs |-> DOMAIN transfer.chunks]

\* handle_transfer_complete(fid) on the transfers T: save_image, or the
\* first NACK and the start of the wait for its ACK
HandleTransferComplete(T, ord, fid, ret, todoNext) ==
    \E missing_seqs \in {MissingSeqs(T[fid])} :
    \E nack \in {send_nack_list(T[fid].sender_addr, fid, missing_seqs)} :
    LET transfer == T[fid]
    IN  /\ todo' = todoNext
        /\ IF Len(missing_seqs) = 0
           THEN /\ files' = Put(files, fid, AssembleFile(transfer.chunks))
                /\ saves' = Append(saves, Saved(fid, transfer))
                /\ transfers' = Del(T, fid)
                /\ t_order' = SelectSeq(ord, LAMBDA f : f # fid)
                /\ rpc' = Resume(ret, todoNext)
                /\ UNCHANGED << wa, r2s, nack_log >>
           ELSE /\ transfers' = T
                /\ t_order' = ord
                /\ r2s' = r2s \o nack
                /\ nack_log' = Append(nack_log, nack)
                /\ wa' = [fid |-> fid, retry |-> 0, ret |-> ret, elapsed |-> 0]
                /\ rpc' = "wait_ack"
                /\ UNCHANGED << files, saves >>

\* a poll that finds bytes: they are appended to the buffer
R_Read ==
    /\ rpc = "poll"
    /\ Len(s2r) > 0
    /\ \E n \in ReadSizes(Len(s2r)) :
          /\ buffer' = buffer \o SubSeq(s2r, 1, n)
          /\ s2r' = SubSeq(s2r, n + 1, Len(s2r))
          /\ splits' = SplitsAfter(n, s2r)
    /\ idle' = 0
    /\ quiet' = 0
    /\ rpc' = "frames"
    /\ UNCHANGED << transfers, t_order, wa, todo, files, emitted, fed, r_last,
                    r_had, nack_log, saves, r2s, inj, svars >>

\* a poll that finds nothing, after more than RECV_TIMEOUT of silence
R_Idle ==
    /\ rpc = "poll"
    /\ idle > RECV_TIMEOUT
    /\ Unfinished(transfers, t_order) # << >>
    /\ EndOfCycle
    /\ UNCHANGED << buffer, transfers, t_order, idle, quiet, wa, files, emitted,
                    fed, r_last, r_had, nack_log, saves, s2r, r2s, inj, splits,
                    svars >>

\* one iteration of the frame loop, with the dispatch of the frame it
\* extracts; the timeout check follows the last iteration
R_Frame ==
    /\ rpc = "frames"
    /\ \E r \in {FrameIter(buffer)} : \E payload \in {From(r.pkt, 7)} :
       LET pkt == r.pkt
           pkt_type == payload[1]
           fid == U16(payload[2], payload[3])
           seq == U16(payload[4], payload[5])
           sender_addr == U16(pkt[5], pkt[6])
       IN  /\ buffer' = r.buffer
           /\ IF r.kind = "continue"
              THEN UNCHANGED << rpc, transfers, t_order, wa, todo, files,
                                emitted, r_last, r_had, nack_log, saves, r2s >>
              ELSE IF r.kind # "emit"
              THEN /\ EndOfCycle
                   /\ UNCHANGED << transfers, t_order, wa, files, emitted,
                                   r_last, r_had, nack_log, saves, r2s >>
              ELSE /\ emitted' = Append(emitted, pkt)
                   /\ r_last' = pkt
                   /\ r_had' = /\ fid \in DOMAIN transfers
                               /\ seq \in DOMAIN transfers[fid].chunks
                   /\ IF pkt_type = PKT_DATA
                      THEN \E chunk_data \in {From(payload, 6)} :
                           \E res \in {process_data_packet(transfers, t_order,
                                         sender_addr, fid, seq, payload[6],
                                         chunk_data)} :
                               /\ transfers' = res.transfers
                               /\ t_order' = res.order
                               /\ UNCHANGED << rpc, wa, todo, files, nack_log,
                                               saves, r2s >>
                      ELSE IF pkt_type = PKT_END
                      THEN \E e \in {process_end_packet(transfers, t_order,
                                         sender_addr, fid, seq)} :
                               IF e.known
                               THEN HandleTransferComplete(e.transfers, e.order,
                                        fid, "frames", todo)
                               ELSE UNCHANGED << rpc, transfers, t_order, wa,
                                                 todo, files, nack_log, saves,
                                                 r2s >>
                      ELSE UNCHANGED << rpc, transfers, t_order, wa, todo, files,
                                        nack_log, saves, r2s >>
    /\ UNCHANGED << idle, quiet, fed, s2r, inj, splits, svars >>

\* one pass of the timeout loop: the END of a transfer is inferred
R_Timeout ==
    /\ rpc = "timeouts"
    /\ todo # << >>
    /\ LET fid == Head(todo)
           transfer == transfers[fid]
       IN  HandleTransferComplete(
               [transfers EXCEPT ![fid].total_expected =
                                     InferTotal(transfer.chunks),
                                 ![fid].end_received = TRUE],
               t_order, fid, "timeouts", Tail(todo))
    /\ UNCHANGED << buffer, idle, quiet, emitted, fed, r_last, r_had, s2r, inj,
                    splits, svars >>

\* the loop condition of wait_for_ack
AckLoopCondition(elapsed) == elapsed < NACK_ACK_TIMEOUT

\* one read of wait_for_ack: the bytes are taken from the serial line
R_WaitAckRead ==
    /\ rpc = "wait_ack"
    /\ AckLoopCondition(wa.elapsed)
    /\ Len(s2r) > 0
    /\ \E n \in ReadSizes(Len(s2r)) :
          /\ s2r' = SubSeq(s2r, n + 1, Len(s2r))
          /\ splits' = SplitsAfter(n, s2r)
          /\ IF IsAckFor(SubSeq(s2r, 1, n), wa.fid)
             THEN /\ rpc' = Resume(wa.ret, todo)
                  /\ wa' = NoWait
             ELSE UNCHANGED << rpc, wa >>
    /\ quiet' = 0
    /\ UNCHANGED << buffer, transfers, t_order, idle, todo, files, emitted,
                    fed, r_last, r_had, nack_log, saves, r2s, inj, svars >>

\* a NACK loop that never runs out of passes
NackRetriesAlways(retry) == TRUE
\* for retry in range(MAX_NACK_RETRIES): there is a pass after pass retry
NackRetriesLeft(retry) == retry + 1 < MAX_NACK_RETRIES

\* wait_for_ack returns False at its deadline: the NACK is sent again, or
\* the retries are used up
R_WaitAckTimeout ==
    /\ rpc = "wait_ack"
    /\ ~AckLoopCondition(wa.elapsed)
    /\ IF NackRetriesLeft(wa.retry)
       THEN \E missing_seqs \in {MissingSeqs(transfers[wa.fid])} :
            \E nack \in {send_nack_list(transfers[wa.fid].sender_addr, wa.fid,
                                         missing_seqs)} :
                /\ r2s' = r2s \o nack
                /\ nack_log' = Append(nack_log, nack)
                /\ wa' = [wa EXCEPT !.retry = @ + 1, !.elapsed = 0]
                /\ UNCHANGED rpc
       ELSE /\ rpc' = Resume(wa.ret, todo)
            /\ wa' = NoWait
            /\ UNCHANGED << r2s, nack_log >>
    /\ UNCHANGED << buffer, transfers, t_order, idle, quiet, todo, files,
                    emitted, fed, r_last, r_had, saves, s2r, inj, splits,
                    svars >>

ReceiverNext ==
    R_Read \/ R_Idle \/ R_Frame \/ R_Timeout \/ R_WaitAckRead \/ R_WaitAckTimeout

\* ------------------------------------------------------------------------
\* Time and the environment
\* ------------------------------------------------------------------------
\* a step that a process takes without waiting for time to pass: the loops
\* poll every 0.01 to 0.1 s, so pending bytes are read and a passed deadline
\* is seen before a whole second is over
SenderUrgent ==
    \/ spc \in {"Chunking", "BulkSending"}
    \/ spc = "AwaitingNack" /\ (~WaitLoopCondition(s_elapsed) \/ r2s # << >>)
ReceiverUrgent ==
    \/ rpc \in {"frames", "timeouts"}
    \/ rpc = "wait_ack" /\ (~AckLoopCondition(wa.elapsed) \/ s2r # << >>)
    \/ rpc = "poll" /\ s2r # << >>
    \/ rpc = "poll" /\ idle > RECV_TIMEOUT
                    /\ Unfinished(transfers, t_order) # << >>

\* one second passes; a clock is counted up to the deadline it is compared
\* with
Tick ==
    /\ ~SenderUrgent
    /\ ~ReceiverUrgent
    /\ \/ spc = "AwaitingNack"
       \/ rpc = "wait_ack"
       \/ rpc = "poll" /\ Unfinished(transfers, t_order) # << >>
    /\ s_elapsed' = IF spc = "AwaitingNack" /\ s_elapsed < NACK_TIMEOUT
                    THEN s_elapsed + 1 ELSE s_elapsed
    /\ wa' = IF rpc = "wait_ack" /\ wa.elapsed < NACK_ACK_TIMEOUT
             THEN [wa EXCEPT !.elapsed = @ + 1] ELSE wa
    /\ idle' = IF rpc \in {"poll", "wait_ack"} /\ idle <= RECV_TIMEOUT
               THEN idle + 1 ELSE idle
    /\ quiet' = IF rpc \in {"poll", "wait_ack"} /\ quiet <= RECV_TIMEOUT
                THEN quiet + 1 ELSE quiet
    /\ UNCHANGED << image, spc, file_id, total_chunks, chunk_file, cf_pos,
                    bulk_seq, retry_round, sent, waits, s_pkt, lost, s2r, r2s,
                    inj, splits, rpc, buffer, transfers, t_order, todo, files,
                    emitted, fed, r_last, r_had, nack_log, saves >>

\* bytes reach the sender's serial line while it waits for a NACK
InjectToSender ==
    /\ spc = "AwaitingNack"
    /\ inj < MaxInject
    /\ r2s = << >>
    /\ \E b \in SenderInputs(file_id) : r2s' = r2s \o b
    /\ inj' = inj + 1
    /\ UNCHANGED << svars, rvars, s2r, splits >>

\* bytes reach the receiver's serial line
InjectToReceiver ==
    /\ rpc \in {"poll", "wait_ack"}
    /\ inj < MaxInject
    /\ s2r = << >>
    /\ \E b \in ReceiverInputs : s2r' = s2r \o b
    /\ inj' = inj + 1
    /\ UNCHANGED << svars, rvars, r2s, splits >>

\* byte strings that reach the receiver's serial line in SpecSave: both DATA
\* frames of a file of two chunks, its second DATA frame with the END, an
\* END that announces one chunk, the END as send_end_packet writes it, a
\* DATA frame of another file, the ACK of the sender, and the first DATA
\* frame
SaveInputs ==
    LET F == 4660
    IN  { DataFrame(F, 0, ChunkA) \o DataFrame(F, 1, ChunkB),
          DataFrame(F, 1, ChunkB) \o EndFrame(F, 2),
          EndFrame(F, 1),
          EndFrame(F, END_SEQ),
          DataFrame(OtherFileId, 4, ChunkA),
          S_build_packet(PKT_ACK, F, ACK_SEQ, << >>),
          DataFrame(F, 0, ChunkA) }
InjectSave ==
    /\ rpc \in {"poll", "wait_ack"}
    /\ inj < MaxSaveInject
    /\ s2r = << >>
    /\ \E b \in SaveInputs : s2r' = s2r \o b
    /\ inj' = inj + 1
    /\ UNCHANGED << svars, rvars, r2s, splits >>

\* a frame of another node's transfer reaches the receiver's serial line
\* while the sender of this model runs
StrayInputs == { DataFrame(OtherFileId, 1, ChunkA), EndFrame(OtherFileId, 2) }
StrayFrame ==
    /\ spc # "off"
    /\ rpc \in {"poll", "wait_ack"}
    /\ inj < MaxInject
    /\ s2r = << >>
    /\ \E b \in StrayInputs : s2r' = s2r \o b
    /\ inj' = inj + 1
    /\ UNCHANGED << svars, rvars, r2s, splits >>

\* raw file data: more than 50 bytes, all of them zero
Noise == [i \in 1..51 |-> 0]
\* byte strings without a sync byte, between the frames of a stream
Garbage ==
    { << >>, << 0, 1, 255 >>,
      << 1, 255, 170, 221, 0, 0, 18, 1, 18, 52, 0, 0, 0, 9 >>,
      Noise }
\* a byte string with a sync byte, a header and an unknown type byte
SyncGarbage == { << SYNC_BYTE, 0, 0, 18, 0, 0, 18, 7, 1 >> }
\* the first 12 bytes of a NACK frame whose count field holds 65535
LongNack == { << SYNC_BYTE, 0, 0, 18, 0, 0, 18, PKT_NACK, 18, 52, 255, 255 >> }
\* frames in the format the frame loop extracts; the DATA and the NACK frame
\* hold a sync byte
ResyncFrames ==
    { DataFrame(4660, 0, ChunkA),
      EndFrame(4660, 1),
      send_nack_list(S_MY_ADDR, 4660, << 0, SYNC_BYTE >>) }

\* a peer writes the next piece of a stream on the receiver's line: garbage,
\* then a frame or nothing
Feed ==
    /\ rpc = "poll"
    /\ inj < MaxInject
    /\ \E g \in Garbage \cup SyncGarbage \cup LongNack,
          f \in ResyncFrames \cup {<< >>} :
          /\ g \o f # << >>
          /\ s2r' = s2r \o g \o f
          /\ fed' = Append(fed, [garbage |-> g, frame |-> f])
    /\ inj' = inj + 1
    /\ UNCHANGED << rpc, buffer, transfers, t_order, idle, quiet, wa, todo,
                    files, emitted, r_last, r_had, nack_log, saves, r2s,
                    splits, svars >>

\* ------------------------------------------------------------------------
\* Specifications
\* ------------------------------------------------------------------------
\* a process that is not part of a specification
SOff ==
    /\ image = << >> /\ spc = "off" /\ file_id = 0 /\ total_chunks = 0
    /\ chunk_file = << >> /\ cf_pos = 0 /\ bulk_seq = 0 /\ retry_round = 0
    /\ s_elapsed = 0 /\ sent = << >> /\ waits = 0 /\ s_pkt = << >> /\ lost = {}
ROff ==
    /\ rpc = "off" /\ buffer = << >> /\ transfers = EmptyDict /\ t_order = << >>
    /\ idle = 0 /\ quiet = 0 /\ wa = NoWait /\ todo = << >>
    /\ files = EmptyDict
    /\ emitted = << >> /\ fed = << >>
    /\ r_last = << >> /\ r_had = FALSE /\ nack_log = << >>
    /\ saves = << >>

LinesInit == s2r = << >> /\ r2s = << >> /\ inj = 0 /\ splits = 0

\* the sender and the receiver on one link: what one writes the other
\* reads, except the DATA frames lost in the bulk pass
Init == SInit /\ RInit /\ LinesInit
Next == SenderNext \/ ReceiverNext \/ Tick \/ StrayFrame
Spec == Init /\ [][Next]_vars

\* the sender alone, against any bytes on its serial line
InitSend == SInit /\ Len(image) = 253 /\ ROff /\ LinesInit
NextSend == SenderNext \/ Tick \/ InjectToSender
SpecSend == InitSend /\ [][NextSend]_vars
\* send_image runs on, and time passes
FairSpecSend == SpecSend /\ WF_vars(SenderNext) /\ WF_vars(Tick)

\* the receiver alone, against any bytes on its serial line
InitRecv == SOff /\ RInit /\ LinesInit
NextRecv == ReceiverNext \/ Tick \/ InjectToReceiver
SpecRecv == InitRecv /\ [][NextRecv]_vars
\* receive_loop runs on, and time passes
FairSpecRecv == SpecRecv /\ WF_vars(ReceiverNext) /\ WF_vars(Tick)

\* the receiver alone, against the frames of a file of two chunks
InitSave == SOff /\ RInit /\ LinesInit
NextSave == ReceiverNext \/ Tick \/ InjectSave
SpecSave == InitSave /\ [][NextSave]_vars

\* either program alone, against any bytes on its serial line
InitAlone == InitSend \/ InitRecv
NextAlone ==
    SenderNext \/ ReceiverNext \/ Tick \/ InjectToSender \/ InjectToReceiver
SpecAlone == InitAlone /\ [][NextAlone]_vars

\* the chunking and the bulk pass of the sender, for files of many sizes
InitChunk ==
    /\ image \in {Image(L) : L \in ChunkLens} /\ SStart
    /\ ROff /\ LinesInit
NextChunk == ChunkImage \/ SendChunk \/ SendEnd
SpecChunk == InitChunk /\ [][NextChunk]_vars

\* the frame loop alone, on a stream of garbage and frames, read in pieces;
\* no time passes between the reads
InitResync == SOff /\ RInit /\ LinesInit
NextResync == R_Read \/ R_Frame \/ Feed
SpecResync == InitResync /\ [][NextResync]_vars

\* ------------------------------------------------------------------------
\* Properties of a transfer from end to end (Spec)
\* ------------------------------------------------------------------------
\* send_image has returned, the receiver has read all it wrote, and no
\* frame of another node was on the link
TransferOver ==
    /\ spc \in {"Complete", "Failed"}
    /\ s2r = << >>
    /\ rpc = "poll"
    /\ inj = 0
\* the sequence numbers a NACK frame lists, in the order of the frame
NackSeqs(nack) ==
    [k \in 1..U16(nack[11], nack[12]) |->
        U16(nack[11 + 2 * k], nack[12 + 2 * k])]

\* C1: when exactly one DATA frame of the bulk pass was lost and all else
\* was delivered, the transfer ends with the file saved by the receiver,
\* its bytes those of the image, and no missing chunk left.
C1_EndToEndRecovery ==
    (TransferOver /\ Cardinality(lost) = 1) =>
        /\ file_id \in DOMAIN files
        /\ files[file_id] = image
        /\ file_id \notin DOMAIN transfers

\* C2: when DATA frames of the bulk pass were lost, the receiver has
\* written a NACK by the end of the transfer, and the first one lists the
\* lost sequence numbers in ascending order and nothing else.
C2_FirstNackListsLost ==
    (TransferOver /\ lost # {}) =>
        /\ nack_log # << >>
        /\ U16(nack_log[1][9], nack_log[1][10]) = file_id
        /\ NackSeqs(nack_log[1]) = SortedKeys(lost)

\* ------------------------------------------------------------------------
\* Properties of the sender (SpecSend)
\* ------------------------------------------------------------------------
\* the bytes pkt, as wait_for_nack indexes them, are a NACK for fid
IsNackFor(pkt, fid) ==
    /\ Len(pkt) >= 11
    /\ pkt[7] = PKT_NACK
    /\ U16(pkt[8], pkt[9]) = fid
NackCount(pkt) == U16(pkt[10], pkt[11])
\* the sequence numbers wholly present in the bytes pkt after the count
NackListed(pkt) ==
    { U16(pkt[10 + 2 * i], pkt[11 + 2 * i]) :
        i \in { j \in 1..NackCount(pkt) : 11 + 2 * j <= Len(pkt) } }
SentType(e) == e.pkt[7]
SentFileId(e) == U16(e.pkt[8], e.pkt[9])
SentSeq(e) == U16(e.pkt[10], e.pkt[11])
Done == spc \in {"Complete", "Failed"}
\* the frames written in answer to the read s_pkt
Burst ==
    SelectSeq(sent, LAMBDA e :
        e.round = IF spc = "Failed" THEN MAX_RETRY_ROUNDS ELSE retry_round)

\* C3: the sender is in Complete only when the read that ended its last
\* wait held a NACK for its file_id whose count field is 0.
C3_CompleteOnlyOnCountZero ==
    spc = "Complete" => IsNackFor(s_pkt, file_id) /\ NackCount(s_pkt) = 0

\* C4: when the read that ended the last wait held a NACK for the file_id
\* with count > 0, the sender wrote exactly one ACK for that file_id, before
\* any DATA frame, and the DATA frames carry only listed sequence numbers.
C4_AckThenListedData ==
    (IsNackFor(s_pkt, file_id) /\ NackCount(s_pkt) > 0) =>
        /\ spc # "Complete"
        /\ Len(Burst) >= 1
        /\ SentType(Burst[1]) = PKT_ACK
        /\ SentFileId(Burst[1]) = file_id
        /\ \A k \in 2..Len(Burst) :
              /\ SentType(Burst[k]) # PKT_ACK
              /\ SentType(Burst[k]) = PKT_DATA
                    => SentSeq(Burst[k]) \in NackListed(s_pkt)

\* C5: at most MAX_RETRY_ROUNDS NACK waits per transfer, and a transfer that
\* has used them all without reading a count-0 NACK ends in Failed.
C5_RoundBudget ==
    /\ waits <= MAX_RETRY_ROUNDS
    /\ (Done /\ waits = MAX_RETRY_ROUNDS
          /\ ~(IsNackFor(s_pkt, file_id) /\ NackCount(s_pkt) = 0))
       => spc = "Failed"

\* C6: whatever bytes the link delivers, send_image ends, in Complete or in
\* Failed: every NACK wait returns once its deadline has passed.
C6_SenderTerminates == <>Done
C6_Witness == spc = "Failed" /\ inj = MaxInject /\ r2s = << >>

\* ------------------------------------------------------------------------
\* Properties of the receiver (SpecRecv)
\* ------------------------------------------------------------------------
\* the fields of a frame the frame loop extracted
IsData(pkt) == Len(pkt) >= 13 /\ pkt[8] = PKT_DATA
FrameFileId(pkt) == U16(pkt[9], pkt[10])
FrameSeq(pkt) == U16(pkt[11], pkt[12])
FrameChecksum(pkt) == pkt[13]
FrameData(pkt) == From(pkt, 13)
SumMatches(pkt) == FrameChecksum(pkt) = SumSeq(FrameData(pkt)) % 256
\* the frame the frame loop extracts in a step from this state
Dispatched == FrameIter(buffer).pkt
Dispatching == rpc = "frames" /\ FrameIter(buffer).kind = "emit"
\* no chunk map differs before and after a step
ChunksUntouched ==
    \A f \in DOMAIN transfers' :
        f \in DOMAIN transfers /\ transfers'[f].chunks = transfers[f].chunks
\* single-byte changes tried on the data of a valid frame
CorruptPositions == {14, 213}
CorruptDeltas == {1, 255}

\* C7: the dispatch of a DATA frame whose checksum byte differs from the sum
\* of its data bytes modulo 256 changes no chunk map, and a valid DATA frame
\* with any single data byte changed would change none either.
C7_ChecksumRejection ==
    [][(Dispatching /\ IsData(Dispatched)) =>
        /\ ~SumMatches(Dispatched) => ChunksUntouched
        /\ SumMatches(Dispatched) =>
              \A i \in CorruptPositions, d \in CorruptDeltas :
                  LET bad == Corrupt(Dispatched, i, (Dispatched[i] + d) % 256)
                      res == process_data_packet(transfers, t_order,
                                 U16(bad[5], bad[6]), FrameFileId(bad),
                                 FrameSeq(bad), FrameChecksum(bad),
                                 FrameData(bad))
                  IN  res.transfers = transfers]_vars
\* a corrupted frame was dispatched for a known transfer, and its sequence
\* number is not in the chunk map
C7_Witness ==
    /\ IsData(r_last) /\ ~SumMatches(r_last)
    /\ FrameFileId(r_last) \in DOMAIN transfers
    /\ FrameSeq(r_last) \notin DOMAIN transfers[FrameFileId(r_last)].chunks

\* the bytes of the file_id and of the sequence number in a frame
FieldPositions == {9, 10, 11, 12}

\* C36: a valid DATA frame with a single byte of its file_id or of its
\* sequence number changed would not be stored: the chunk map of the changed
\* file_id does not get the frame's data under the changed sequence number.
C36_FieldChangeNotStored ==
    [][(Dispatching /\ IsData(Dispatched) /\ SumMatches(Dispatched)) =>
          \A i \in FieldPositions, d \in CorruptDeltas :
              LET bad == Corrupt(Dispatched, i, (Dispatched[i] + d) % 256)
                  res == process_data_packet(transfers, t_order,
                             U16(bad[5], bad[6]), FrameFileId(bad),
                             FrameSeq(bad), FrameChecksum(bad),
                             FrameData(bad))
              IN  ~(/\ FrameFileId(bad) \in DOMAIN res.transfers
                    /\ FrameSeq(bad) \in
                          DOMAIN res.transfers[FrameFileId(bad)].chunks
                    /\ res.transfers[FrameFileId(bad)].chunks[FrameSeq(bad)]
                          = FrameData(Dispatched))]_vars

\* C8: the dispatch of a valid DATA frame whose sequence number is already
\* stored for its file_id with the same bytes leaves that chunk map, and
\* every other, as it was: one entry for the sequence number, same bytes.
C8_DuplicateIdempotent ==
    [][(/\ Dispatching /\ IsData(Dispatched) /\ SumMatches(Dispatched)
        /\ FrameFileId(Dispatched) \in DOMAIN transfers
        /\ LET chunks == transfers[FrameFileId(Dispatched)].chunks
           IN  /\ FrameSeq(Dispatched) \in DOMAIN chunks
               /\ chunks[FrameSeq(Dispatched)] = FrameData(Dispatched))
       => /\ DOMAIN transfers' = DOMAIN transfers
          /\ ChunksUntouched]_vars
\* the same valid frame was dispatched again, next to another stored chunk
C8_Witness ==
    /\ IsData(r_last) /\ SumMatches(r_last) /\ r_had
    /\ FrameFileId(r_last) \in DOMAIN transfers
    /\ LET chunks == transfers[FrameFileId(r_last)].chunks
       IN  /\ chunks[FrameSeq(r_last)] = FrameData(r_last)
           /\ Cardinality(DOMAIN chunks) >= 2

\* the NACK written last, and its fields
LastNack == nack_log[Len(nack_log)]
LastNackCount == U16(LastNack[11], LastNack[12])
LastNackListed ==
    [k \in 1..LastNackCount |-> U16(LastNack[11 + 2 * k], LastNack[12 + 2 * k])]
\* the transfer the receiver waits for an ACK for, and the size of its
\* missing set
Awaited == transfers[wa.fid]
AwaitedMissing ==
    Awaited.total_expected
      - Cardinality({s \in DOMAIN Awaited.chunks : s < Awaited.total_expected})

\* C9: while the receiver waits for the ACK of a NACK, that NACK's count is
\* the size of the missing set, or 114 if the set is larger, and it lists
\* that many sequence numbers: the smallest missing ones in ascending order.
C9_NackTruncation ==
    rpc = "wait_ack" =>
        /\ LastNackCount = Min(AwaitedMissing, 114)
        /\ Len(LastNack) = 12 + 2 * LastNackCount
        /\ \A k \in 1..LastNackCount :
              /\ LastNackListed[k] \notin DOMAIN Awaited.chunks
              /\ LastNackListed[k] < Awaited.total_expected
              /\ k > 1 => LastNackListed[k - 1] < LastNackListed[k]
        /\ \A s \in 0..LastNackListed[LastNackCount] :
              s \in DOMAIN Awaited.chunks
                \/ \E k \in 1..LastNackCount : LastNackListed[k] = s
\* a NACK for a missing set of more than 114 is out
C9_Witness ==
    /\ rpc = "wait_ack"
    /\ AwaitedMissing > 114
    /\ LastNackCount = 114
    /\ DOMAIN Awaited.chunks # {}

\* C15: every transfer the receiver saved had end_received set and a chunk
\* for every sequence number below its total_expected when save_image was
\* called, and an output file exists for the saved transfers only.
C15_SaveOnlyComplete ==
    /\ \A k \in DOMAIN saves :
          /\ saves[k].end_received
          /\ saves[k].total_expected # NoneVal
          /\ \A seq \in 0..(saves[k].total_expected - 1) :
                seq \in saves[k].seqs
    /\ DOMAIN files = { saves[k].fid : k \in DOMAIN saves }
\* a transfer of two chunks was saved after its END
C15_Witness ==
    /\ Len(saves) = 1
    /\ saves[1].total_expected = 2
    /\ saves[1].seqs = {0, 1}
    /\ saves[1].fid \in DOMAIN files

IsEnd(pkt) == Len(pkt) >= 12 /\ pkt[8] = PKT_END
\* the file_id of the frame being dispatched has no transfer
DispatchingUnseen ==
    Dispatching /\ FrameFileId(Dispatched) \notin DOMAIN transfers
\* the file_id of the frame being dispatched has a transfer after the
\* step, or had one that the step saved
TransferMade ==
    \/ FrameFileId(Dispatched) \in DOMAIN transfers'
    \/ FrameFileId(Dispatched) \in DOMAIN files' \ DOMAIN files

\* C16 as stated: the dispatch of a valid DATA frame or of an END frame
\* whose file_id has no transfer creates the transfer of that file_id.
C16_CreatedByDataOrEnd ==
    [][(/\ DispatchingUnseen
        /\ \/ IsData(Dispatched) /\ SumMatches(Dispatched)
           \/ IsEnd(Dispatched))
       => TransferMade]_vars

\* C16 amended: a transfer is created by the dispatch of a valid DATA frame
\* whose file_id has none, and by nothing else: it then holds that frame's
\* chunk only, no total and no END; an END frame for a file_id without a
\* transfer creates none.
C16_CreatedByFirstData ==
    [][/\ \A f \in DOMAIN transfers' \ DOMAIN transfers :
             /\ Dispatching
             /\ IsData(Dispatched) /\ SumMatches(Dispatched)
             /\ FrameFileId(Dispatched) = f
             /\ transfers'[f] =
                   [sender_addr |-> U16(Dispatched[5], Dispatched[6]),
                    chunks |-> FrameSeq(Dispatched) :> FrameData(Dispatched),
                    total_expected |-> NoneVal, end_received |-> FALSE]
       /\ DispatchingUnseen =>
             (TransferMade <=> IsData(Dispatched) /\ SumMatches(Dispatched))
      ]_vars
\* the END of a file_id was extracted first and its DATA frame next: the
\* transfer exists, without its END
C16_Witness ==
    /\ Len(emitted) = 2
    /\ IsEnd(emitted[1]) /\ IsData(emitted[2])
    /\ FrameFileId(emitted[1]) = FrameFileId(emitted[2])
    /\ FrameFileId(emitted[2]) \in DOMAIN transfers
    /\ ~transfers[FrameFileId(emitted[2])].end_received

\* C17: the dispatch of an END frame whose file_id has no transfer changes
\* no transfer, writes no NACK and no file, and the frame loop goes on.
C17_UnknownEndIgnored ==
    [][(DispatchingUnseen /\ IsEnd(Dispatched))
       => /\ transfers' = transfers /\ t_order' = t_order
          /\ nack_log' = nack_log /\ r2s' = r2s
          /\ files' = files /\ saves' = saves
          /\ rpc' = "frames"]_vars
\* an END frame was extracted while the receiver had no transfer at all
C17_Witness ==
    /\ emitted # << >> /\ IsEnd(emitted[1])
    /\ r_last = emitted[1]
    /\ transfers = EmptyDict /\ saves = << >> /\ nack_log = << >>

\* C18: the dispatch of a DATA or END frame leaves every transfer of
\* another file_id in the map, with the same chunks, end_received and
\* total_expected.
C18_TransferIsolation ==
    [][(Dispatching /\ (IsData(Dispatched) \/ IsEnd(Dispatched)))
       => \A g \in DOMAIN transfers \ {FrameFileId(Dispatched)} :
             /\ g \in DOMAIN transfers'
             /\ transfers'[g] = transfers[g]]_vars
\* DATA frames of two file_ids were extracted and then the END of the
\* second one: the receiver waits for the ACK of its NACK while the first
\* transfer is as its DATA frame left it
C18_Witness ==
    /\ Len(emitted) = 3
    /\ IsData(emitted[1]) /\ IsData(emitted[2]) /\ IsEnd(emitted[3])
    /\ FrameFileId(emitted[1]) # FrameFileId(emitted[2])
    /\ FrameFileId(emitted[3]) = FrameFileId(emitted[2])
    /\ rpc = "wait_ack" /\ wa.fid = FrameFileId(emitted[3])
    /\ FrameFileId(emitted[1]) \in DOMAIN transfers
    /\ transfers[FrameFileId(emitted[1])] =
          [sender_addr |-> 0,
           chunks |-> FrameSeq(emitted[1]) :> FrameData(emitted[1]),
           total_expected |-> NoneVal, end_received |-> FALSE]

\* the bytes a step takes from the sender-to-receiver line
ReadFromLine == SubSeq(s2r, 1, Len(s2r) - Len(s2r'))
TakesFromLine == Len(s2r') < Len(s2r)

\* C21: one call of handle_transfer_complete for an incomplete transfer
\* writes at most MAX_NACK_RETRIES NACK frames, each but the first at the
\* deadline of the ACK wait before it; no ACK wait reads after its deadline,
\* and at the deadline it ends; a read that holds the ACK for the file_id
\* ends the call without another NACK; after the last wait without an ACK
\* the call returns; and the transfer stays in the map, unchanged, all the
\* while.
C21_NackRetryBudget ==
    [][/\ nack_log' # nack_log =>
             /\ Len(nack_log') = Len(nack_log) + 1
             /\ rpc' = "wait_ack" /\ wa'.elapsed = 0
             /\ IF rpc = "wait_ack"
                THEN /\ ~AckLoopCondition(wa.elapsed)
                     /\ wa'.fid = wa.fid
                     /\ wa'.retry = wa.retry + 1
                ELSE wa'.retry = 0
       /\ rpc = "wait_ack" =>
             /\ wa.retry + 1 <= MAX_NACK_RETRIES
             /\ wa.fid \in DOMAIN transfers
             /\ transfers' = transfers
             /\ TakesFromLine => AckLoopCondition(wa.elapsed)
             /\ (TakesFromLine /\ IsAckFor(ReadFromLine, wa.fid)) =>
                   rpc' # "wait_ack" /\ nack_log' = nack_log
             /\ (~AckLoopCondition(wa.elapsed) /\ s2r' = s2r) =>
                   \/ rpc' # "wait_ack" /\ nack_log' = nack_log
                   \/ rpc' = "wait_ack" /\ nack_log' # nack_log
             /\ (~AckLoopCondition(wa.elapsed) /\ s2r' = s2r
                   /\ wa.retry + 1 = MAX_NACK_RETRIES) =>
                   rpc' # "wait_ack" /\ nack_log' = nack_log
      ]_vars
\* the receiver is back in its loop after MAX_NACK_RETRIES NACK frames for
\* one transfer without an ACK; the transfer is there with its chunk
C21_Witness ==
    /\ rpc # "wait_ack"
    /\ Len(nack_log) = MAX_NACK_RETRIES
    /\ \A k \in DOMAIN nack_log : nack_log[k] = nack_log[1]
    /\ \E f \in DOMAIN transfers :
          /\ transfers[f].end_received
          /\ DOMAIN transfers[f].chunks = {0}
          /\ transfers[f].total_expected = 2

\* the transfer the step saves, as save_image finds it
JustSaved == saves'[Len(saves')]

\* C28: a step that saves a transfer writes, under the name of its file_id,
\* the bytes of its chunks 0..total_expected-1 in ascending order and of no
\* other chunk, and removes the transfer from the map.
C28_SavedBytes ==
    [][saves' # saves =>
          /\ Len(saves') = Len(saves) + 1
          /\ JustSaved.fid \in DOMAIN transfers
          /\ JustSaved.fid \notin DOMAIN transfers'
          /\ DOMAIN files' = DOMAIN files \cup {JustSaved.fid}
          /\ files'[JustSaved.fid] =
                Concat([k \in 1..JustSaved.total_expected |->
                           transfers[JustSaved.fid].chunks[k - 1]])
      ]_vars

\* C29: the read that holds the ACK for the file_id of the NACK ends the
\* wait and leaves the transfers as they are, that of the file_id among
\* them; and the dispatch of a valid DATA frame for a transfer whose END was
\* seen stores its chunk in that transfer and changes nothing else of it.
C29_AckKeepsTransfer ==
    [][/\ (rpc = "wait_ack" /\ TakesFromLine
             /\ IsAckFor(ReadFromLine, wa.fid)) =>
             /\ wa.fid \in DOMAIN transfers
             /\ transfers' = transfers
             /\ rpc' \in {"frames", "poll", "timeouts"}
       /\ (/\ Dispatching /\ IsData(Dispatched) /\ SumMatches(Dispatched)
           /\ FrameFileId(Dispatched) \in DOMAIN transfers
           /\ transfers[FrameFileId(Dispatched)].end_received) =>
             transfers' =
                [transfers EXCEPT ![FrameFileId(Dispatched)].chunks =
                    (FrameSeq(Dispatched) :> FrameData(Dispatched)) @@ @]
      ]_vars
\* the one NACK of a transfer was answered with the ACK, and the DATA frame
\* of the sequence number it listed was stored in the transfer afterwards
C29_Witness ==
    /\ Len(nack_log) = 1 /\ NackSeqs(nack_log[1]) = << 0 >>
    /\ rpc # "wait_ack"
    /\ IsData(r_last) /\ FrameSeq(r_last) = 0 /\ ~r_had
    /\ FrameFileId(r_last) \in DOMAIN transfers
    /\ LET transfer == transfers[FrameFileId(r_last)]
       IN  /\ transfer.end_received
           /\ transfer.total_expected = 2
           /\ DOMAIN transfer.chunks = {0, 1}

\* the frame being dispatched holds, after the sync byte, the END frame
\* that send_end_packet writes for its file_id
SenderEnd(pkt) == IsEnd(pkt) /\ From(pkt, 1) = EndPacket(FrameFileId(pkt))
\* the chunks the sender splits the file of SaveInputs into
SaveTotal == CeilDiv(Len(ChunkA \o ChunkB), CHUNK_SIZE)

\* C30: the dispatch of an END frame of the sender, for a file_id that has a
\* transfer, leaves that transfer with end_received set and total_expected
\* the number of chunks the sender split the file into.
C30_EndSetsTotal ==
    [][(/\ Dispatching /\ SenderEnd(Dispatched)
        /\ FrameFileId(Dispatched) \in DOMAIN transfers) =>
          /\ FrameFileId(Dispatched) \in DOMAIN transfers'
          /\ transfers'[FrameFileId(Dispatched)].end_received
          /\ transfers'[FrameFileId(Dispatched)].total_expected = SaveTotal
      ]_vars

\* the step starts the timeout loop: the END of every transfer in todo is
\* inferred in this poll cycle
StartsInference == rpc \in {"poll", "frames"} /\ rpc' = "timeouts"

\* C31: the END of a transfer is inferred only when no byte was read from
\* the serial line for longer than RECV_TIMEOUT, and the poll cycle that
\* finds the line silent for longer than RECV_TIMEOUT infers the END of
\* every transfer that has none.
C31_InferenceOnSilence ==
    [][/\ StartsInference => quiet > RECV_TIMEOUT
       /\ (rpc = "poll" /\ quiet > RECV_TIMEOUT /\ s2r = << >>
             /\ Unfinished(transfers, t_order) # << >> /\ rvars' # rvars) =>
             /\ rpc' = "timeouts"
             /\ todo' = Unfinished(transfers, t_order)
      ]_vars

\* the END of the transfer was seen and no sequence number below its
\* total_expected is missing
EndedAndWhole(transfer) ==
    /\ transfer.end_received
    /\ \A seq \in 0..(transfer.total_expected - 1) :
          seq \in DOMAIN transfer.chunks

\* C32: when a poll cycle is over, no transfer in the map has its END and
\* all its chunks: a transfer is saved in the cycle that stores its last
\* missing chunk.
C32_NoWholeTransferLeft ==
    rpc = "poll" => \A f \in DOMAIN transfers : ~EndedAndWhole(transfers[f])

\* C33: a step that saves a transfer writes to the sender a NACK for its
\* file_id with count 0, the frame on which the sender ends in Complete.
C33_SaveSendsCountZero ==
    [][saves' # saves =>
          /\ nack_log' =
                Append(nack_log,
                       send_nack_list(transfers[JustSaved.fid].sender_addr,
                                      JustSaved.fid, << >>))
          /\ r2s' = r2s \o nack_log'[Len(nack_log')]
      ]_vars

\* C34: once the output of a file_id is written, no step writes it again with
\* other bytes, whatever frames of that transfer and whatever silence follow.
C34_SavedFileStays ==
    [][\A f \in DOMAIN files : files'[f] = files[f]]_vars

\* the bytes a step takes from the line start with a whole DATA frame whose
\* checksum matches
ReadsValidData ==
    /\ TakesFromLine
    /\ \E bytes \in {ReadFromLine} :
          /\ Len(bytes) >= ExpectedSize(bytes, PKT_DATA)
          /\ bytes[1] = SYNC_BYTE /\ IsData(bytes)
          /\ SumMatches(SubSeq(bytes, 1, ExpectedSize(bytes, PKT_DATA)))

\* C35: whenever the receiver takes a valid DATA frame from the line, in the
\* poll cycle or in the ACK wait, the bytes are appended to the buffer the
\* frame loop works on.
C35_ReadReachesBuffer ==
    [][ReadsValidData => buffer' = buffer \o ReadFromLine]_vars

\* the step writes a NACK frame
WritesNack == Len(nack_log') = Len(nack_log) + 1
WrittenNack == nack_log'[Len(nack_log')]

\* C40: a step that writes a NACK for a file_id leaves a transfer for that
\* file_id with end_received true, and the sequence numbers the NACK lists
\* are below the transfer's total_expected, are no keys of its chunk map, and
\* are in strictly ascending order; a NACK is written by no other step and
\* reaches the sender's line as it is.
C40_NackListsMissing ==
    [][/\ nack_log' # nack_log => WritesNack
       /\ WritesNack =>
             \E fid \in {FrameFileId(WrittenNack)}, seqs \in {NackSeqs(WrittenNack)} :
                /\ r2s' = r2s \o WrittenNack
                /\ WrittenNack[8] = PKT_NACK
                /\ fid \in DOMAIN transfers'
                /\ transfers'[fid].end_received
                /\ Len(seqs) > 0
                /\ \A k \in DOMAIN seqs :
                      /\ seqs[k] < transfers'[fid].total_expected
                      /\ seqs[k] \notin DOMAIN transfers'[fid].chunks
                      /\ k > 1 => seqs[k - 1] < seqs[k]
      ]_vars
\* NACKs were written for a transfer ended by its END and for one ended by
\* the silence, the latter listing the sequence numbers 0..3
C40_Witness ==
    /\ \E k \in DOMAIN nack_log : FrameFileId(nack_log[k]) = 4660
    /\ \E k \in DOMAIN nack_log :
          /\ FrameFileId(nack_log[k]) = OtherFileId
          /\ NackSeqs(nack_log[k]) = << 0, 1, 2, 3 >>

\* a transfer without its END
Unended(f) == f \in DOMAIN transfers /\ ~transfers[f].end_received
\* no byte will reach the receiver any more
Silent == rpc = "poll" /\ s2r = << >> /\ inj = MaxInject
\* the END of a transfer was inferred: it is ended with total_expected one
\* more than its largest stored sequence number, or it was complete with
\* that total and has been saved
Inferred(f) ==
    \/ /\ f \in DOMAIN transfers
       /\ transfers[f].end_received
       /\ transfers[f].total_expected
            = MaxOf(DOMAIN transfers[f].chunks) + 1
    \/ /\ f \notin DOMAIN transfers
       /\ f \in DOMAIN files
ReceiverFileIds == {4660, OtherFileId}

\* C10: a transfer that has no END when the line falls silent is ended by
\* the receiver with total_expected = largest stored sequence number + 1,
\* and the receiver goes on to its missing set: it saves the file, or it
\* writes the NACK and waits for the ACK.
C10_TimeoutInference ==
    /\ \A f \in ReceiverFileIds : (Silent /\ Unended(f)) ~> Inferred(f)
    /\ []((rpc = "wait_ack" /\ wa.ret = "timeouts")
            => /\ Awaited.end_received
               /\ Awaited.total_expected = MaxOf(DOMAIN Awaited.chunks) + 1
               /\ AwaitedMissing > 0)
\* the END of a transfer that holds sequence number 4 only was inferred:
\* total_expected is 5 and the NACK is out
C10_Witness ==
    /\ rpc = "wait_ack" /\ wa.ret = "timeouts"
    /\ DOMAIN Awaited.chunks = {4}
    /\ Awaited.total_expected = 5
    /\ Awaited.end_received
    /\ LastNackCount = 4

\* ------------------------------------------------------------------------
\* Properties of the frame loop (SpecResync)
\* ------------------------------------------------------------------------
HasSync(bytes) == \E i \in DOMAIN bytes : bytes[i] = SYNC_BYTE
\* no garbage of the stream holds a sync byte
CleanFeed == \A k \in DOMAIN fed : ~HasSync(fed[k].garbage)
\* the frames of the stream, in order
FedFrames ==
    LET fs == SelectSeq(fed, LAMBDA e : e.frame # << >>)
    IN  [k \in DOMAIN fs |-> fs[k].frame]
IsPrefix(a, b) == Len(a) <= Len(b) /\ a = SubSeq(b, 1, Len(a))
\* the stream was read to its end and the frame loop has run on it
StreamRead == rpc = "poll" /\ s2r = << >>

\* C11: for a stream of valid frames with garbage without sync bytes in
\* between, read in pieces of any sizes, the frames the frame loop extracts
\* are at any time the first frames of the stream, in order, and all of
\* them once the stream was read to its end.
C11_ResyncConvergence ==
    CleanFeed =>
        /\ IsPrefix(emitted, FedFrames)
        /\ StreamRead => emitted = FedFrames
\* two frames were extracted from a stream with garbage, read in pieces
C11_Witness ==
    /\ CleanFeed /\ StreamRead
    /\ Len(emitted) = 2 /\ emitted = FedFrames
    /\ \A k \in DOMAIN fed : fed[k].garbage # << >>
    /\ splits = MaxSplits

\* the frame loop started on buf ends within fuel iterations
RECURSIVE LoopEnds(_, _)
LoopEnds(buf, fuel) ==
    IF fuel = 0 THEN FALSE
    ELSE \E r \in {FrameIter(buf)} :
            r.kind \in {"exit", "break"} \/ LoopEnds(r.buffer, fuel - 1)

\* C12: the next iteration of the frame loop extracts a frame, or leaves
\* the buffer strictly shorter, or ends the loop; and the frame loop ends
\* within as many iterations as the buffer has bytes, plus one, whatever the
\* buffer holds.
C12_ResyncProgress ==
    rpc = "frames" =>
        /\ \E r \in {FrameIter(buffer)} :
              \/ r.kind = "emit"
              \/ Len(r.buffer) < Len(buffer)
              \/ r.kind \in {"exit", "break"}
        /\ LoopEnds(buffer, Len(buffer) + 1)
\* the frame after garbage with a sync byte and an unknown type byte was
\* extracted
C12_Witness ==
    /\ Len(fed) = 1 /\ fed[1].garbage \in SyncGarbage
    /\ fed[1].frame # << >>
    /\ StreamRead
    /\ emitted = << fed[1].frame >>

\* the buffer starts with a sync byte, holds a header, and the byte at
\* offset 7 is no known type
FalseSync(buf) ==
    Len(buf) >= 12 /\ buf[1] = SYNC_BYTE /\ buf[8] \notin KnownTypes

NoSync(buf) ==
    Len(buf) >= 12 /\ buf[1] # SYNC_BYTE /\ Find(buf, SYNC_BYTE, 1) = -1
\* len(buffer) > 50 and buffer.count(0x00) > len(buffer) // 4
LooksLikeNoise(buf) ==
    /\ Len(buf) > 50
    /\ Cardinality({i \in DOMAIN buf : buf[i] = 0}) > Len(buf) \div 4

\* C26: an iteration of the frame loop on a buffer without a sync byte ends
\* the cycle, with the buffer empty when it is longer than 50 bytes and more
\* than a quarter of them are zero, and with the last byte of the buffer,
\* alone, when it is not.
C26_NoSyncNoiseOrLastByte ==
    [][(rpc = "frames" /\ NoSync(buffer)) =>
          /\ rpc' = "poll"
          /\ emitted' = emitted
          /\ buffer' = IF LooksLikeNoise(buffer) THEN << >>
                        ELSE << buffer[Len(buffer)] >>]_vars

\* the buffer starts with a sync byte and a known type
KnownStart(buf) ==
    Len(buf) >= 8 /\ buf[1] = SYNC_BYTE /\ buf[8] \in KnownTypes
\* the buffer starts with a frame it holds a part of, or all of
PartialFrame(buf) ==
    KnownStart(buf) /\ (Len(buf) < 12 \/ Len(buf) < ExpectedSize(buf, buf[8]))
WholeFrame(buf) ==
    KnownStart(buf) /\ Len(buf) >= 12 /\ Len(buf) >= ExpectedSize(buf, buf[8])

\* C27: on a buffer that starts with a sync byte and a known type and is
\* shorter than the frame of that type, the frame loop ends the cycle with
\* the buffer as it was and extracts nothing; on a buffer that holds the
\* whole frame it extracts the frame and keeps the rest; and no cycle ends
\* with a whole frame at the start of the buffer, so the frame is extracted
\* in the cycle of the read that brings its last byte.
C27_WaitForWholeFrame ==
    /\ [][(rpc = "frames" /\ PartialFrame(buffer)) =>
             /\ buffer' = buffer
             /\ emitted' = emitted
             /\ rpc' = "poll"]_vars
    /\ [][(rpc = "frames" /\ WholeFrame(buffer)) =>
             /\ emitted' = Append(emitted,
                     SubSeq(buffer, 1, ExpectedSize(buffer, buffer[8])))
             /\ buffer' = From(buffer, ExpectedSize(buffer, buffer[8]))]_vars
    /\ [](rpc = "poll" => ~WholeFrame(buffer))
\* a cycle has ended with the first bytes of a DATA frame in the buffer, at
\* least a header, while the rest of the frame is on the line
C27_Witness ==
    /\ rpc = "poll"
    /\ PartialFrame(buffer) /\ Len(buffer) >= 12
    /\ buffer[8] = PKT_DATA
    /\ Len(buffer) + Len(s2r) = ExpectedSize(buffer, buffer[8])

\* the longest frame of the protocol: a NACK with max_seqs_per_packet entries
LongestFrame == 1 + 6 + 1 + 2 + 2 + 2 * max_seqs_per_packet

\* C37: the frame length the frame loop waits for on a buffer that starts
\* with a sync byte and a known type is at most that of the longest frame,
\* so that the frames behind such a header are not held back in the buffer.
C37_BoundedFrameWait ==
    (Len(buffer) >= 12 /\ KnownStart(buffer)) =>
        ExpectedSize(buffer, buffer[8]) <= LongestFrame

\* the bytes written on the receiver's line so far, and those of them the
\* receiver has read
Stream == Concat([k \in DOMAIN fed |-> fed[k].garbage \o fed[k].frame])
Received == SubSeq(Stream, 1, Len(Stream) - Len(s2r))
IsSuffix(a, b) == Len(a) <= Len(b) /\ a = SubSeq(b, Len(b) - Len(a) + 1, Len(b))
\* the offset (0-based) of the first occurrence of frame in stream at or
\* after start, or -1
RECURSIVE FindFrame(_, _, _)
FindFrame(stream, frame, start) ==
    LET p == Find(stream, frame[1], start)
    IN  IF p = -1 \/ p + Len(frame) > Len(stream) THEN -1
        ELSE IF Slice(stream, p, Len(frame)) = frame THEN p
        ELSE FindFrame(stream, frame, p + 1)
\* the frames from the k-th on are slices of stream, one after the other,
\* at or after start
RECURSIVE SlicesInOrder(_, _, _, _)
SlicesInOrder(frames, k, stream, start) ==
    IF k > Len(frames) THEN TRUE
    ELSE LET p == FindFrame(stream, frames[k], start)
         IN  /\ p # -1
             /\ SlicesInOrder(frames, k + 1, stream, p + Len(frames[k]))

\* C38: the buffer is a suffix of the bytes read so far, and the extracted
\* frames are slices of the bytes before it, disjoint and in the order of
\* the stream.
C38_FramesAreSlices ==
    \E rec \in {Received} :
        /\ IsSuffix(buffer, rec)
        /\ SlicesInOrder(emitted, 1, SubSeq(rec, 1, Len(rec) - Len(buffer)), 0)
\* a frame was extracted from behind garbage, and the buffer holds the first
\* bytes of the next piece of the stream while the rest is on the line
C38_Witness ==
    /\ Len(fed) = 2 /\ fed[1].garbage # << >>
    /\ emitted = << fed[1].frame >>
    /\ rpc = "poll" /\ buffer # << >> /\ s2r # << >>

\* ------------------------------------------------------------------------
\* Properties of the frame format on the link (Spec, SpecSend)
\* ------------------------------------------------------------------------
\* the receiver has read and processed all the sender wrote; no frame was
\* lost and none came from another node
LinkQuiet == s2r = << >> /\ rpc = "poll" /\ lost = {} /\ inj = 0
\* the fields the frame loop of the receiver reads from a frame it extracted
Decoded(pkt) ==
    [type |-> pkt[8], file_id |-> U16(pkt[9], pkt[10]),
     seq |-> U16(pkt[11], pkt[12]), data |-> From(pkt, 12)]
\* the fields the sender gave build_packet for an entry of sent
Encoded(e) ==
    [type |-> SentType(e), file_id |-> SentFileId(e), seq |-> SentSeq(e),
     data |-> From(e.pkt, 11)]

\* C13: what the receiver extracts from the bytes of the frames the sender
\* wrote are those frames: as many, in order, each with the type, file_id,
\* sequence number and payload the sender encoded.
C13_CodecRoundTrip ==
    LinkQuiet =>
        /\ Len(emitted) = Len(sent)
        /\ \A k \in DOMAIN sent : Decoded(emitted[k]) = Encoded(sent[k])

\* C14: every DATA frame the sender wrote, in the bulk pass or in a
\* retransmission, starts with the sync byte and is 13 + CHUNK_SIZE bytes
\* long.
C14_DataFrameLength ==
    \A k \in DOMAIN sent :
        sent[k].what \in {"bulk", "retx"} =>
            /\ sent[k].pkt[1] = SYNC_BYTE
            /\ Len(sent[k].pkt) = 13 + CHUNK_SIZE

\* ------------------------------------------------------------------------
\* Properties of either program alone (SpecAlone)
\* ------------------------------------------------------------------------
\* every offset of the set is an index of the bytes
InBounds(offsets, bytes) == \A o \in offsets : 0 <= o /\ o < Len(bytes)
\* the bytes the next serial read may return
NextReads(line) == { SubSeq(line, 1, n) : n \in ReadSizes(Len(line)) }

\* C19: in every state, what the receiver loop or the NACK wait of the
\* sender does next indexes the buffer, the extracted frame or the bytes
\* read within their length only, and looks up transfers that exist: the
\* frame loop and its dispatch, the timeout loop, the wait for an ACK and
\* the resending of the NACK, and the wait for a NACK.
C19_NoUnhandledError ==
    /\ rpc = "frames" =>
          /\ InBounds(FrameLoopReads(buffer), buffer)
          /\ FrameIter(buffer).kind = "emit" =>
                InBounds(DispatchReads(Dispatched), Dispatched)
    /\ rpc = "timeouts" => \A k \in DOMAIN todo : todo[k] \in DOMAIN transfers
    /\ rpc = "wait_ack" =>
          /\ wa.fid \in DOMAIN transfers
          /\ \A pkt \in NextReads(s2r) : InBounds(AckReads(pkt), From(pkt, 6))
    /\ spc = "AwaitingNack" =>
          \A pkt \in NextReads(r2s) :
              InBounds(NackReads(pkt, file_id), From(pkt, 6))
    /\ \A f \in DOMAIN transfers :
          transfers[f].end_received => transfers[f].total_expected # NoneVal
\* the sender has read a NACK for its file_id that is cut in the middle of
\* its first sequence number
C19_Witness ==
    /\ IsNackFor(s_pkt, file_id)
    /\ NackCount(s_pkt) = 1
    /\ Len(s_pkt) = 12

\* ------------------------------------------------------------------------
\* Properties of the chunk file (SpecChunk)
\* ------------------------------------------------------------------------
\* where the record of seq starts in the chunk file when every record
\* before it holds CHUNK_SIZE data bytes, and the data bytes left for it
RecordPos(seq) == 8 + seq * (2 + 1 + CHUNK_SIZE)
RecordLen(seq) == Min(CHUNK_SIZE, Len(image) - seq * CHUNK_SIZE)
RecordData(seq) ==
    SubSeq(chunk_file, RecordPos(seq) + 4, RecordPos(seq) + 3 + RecordLen(seq))

\* C20: once the file is chunked, total_chunks is the file size divided by
\* CHUNK_SIZE, rounded up; the chunk file holds one record per sequence
\* number 0..total_chunks-1, in order, and nothing else; every record but
\* the last holds CHUNK_SIZE data bytes, the last between 1 and CHUNK_SIZE;
\* each record's checksum byte is the sum of its data bytes modulo 256; and
\* the data of the records, in ascending order, is the file.
C20_ChunkSplit ==
    spc \notin {"Chunking", "off"} =>
        /\ total_chunks * CHUNK_SIZE >= Len(image)
        /\ (total_chunks - 1) * CHUNK_SIZE < Len(image)
        /\ U16(chunk_file[3], chunk_file[4]) = total_chunks
        /\ Len(chunk_file) = 8 + 3 * total_chunks + Len(image)
        /\ \A seq \in 0..(total_chunks - 1) :
              /\ U16(chunk_file[RecordPos(seq) + 1],
                     chunk_file[RecordPos(seq) + 2]) = seq
              /\ RecordLen(seq) >= 1 /\ RecordLen(seq) <= CHUNK_SIZE
              /\ seq < total_chunks - 1 => RecordLen(seq) = CHUNK_SIZE
              /\ chunk_file[RecordPos(seq) + 3]
                    = SumSeq(RecordData(seq)) % 256
        /\ Concat([k \in 1..total_chunks |-> RecordData(k - 1)]) = image
\* the file of 853 bytes is chunked and sent: four DATA frames with 200
\* data bytes and one with 53
C20_Witness ==
    /\ Len(image) = 853 /\ total_chunks = 5
    /\ spc = "AwaitingNack" /\ lost = {}
    /\ \A seq \in 0..3 : RecordLen(seq) = 200
    /\ RecordLen(4) = 53
    /\ Len(sent[5].pkt) = 6 + 5 + 1 + 53

\* ------------------------------------------------------------------------
\* Properties of the order of the sender's frames (Spec, SpecSend)
\* ------------------------------------------------------------------------
\* the frame the bulk pass writes for sequence number seq
BulkFrame(seq) ==
    LET chunk_data == Slice(image, seq * CHUNK_SIZE, CHUNK_SIZE)
    IN  S_build_packet(PKT_DATA, file_id, seq,
                       << SumSeq(chunk_data) % 256 >> \o chunk_data)
\* entry k of sent is a DATA frame of the bulk pass for sequence number seq
IsBulkData(k, seq) ==
    /\ sent[k].what = "bulk"
    /\ SentType(sent[k]) = PKT_DATA
    /\ SentFileId(sent[k]) = file_id
    /\ SentSeq(sent[k]) = seq

\* C22: in BulkSending the frames written so far are the DATA frames of the
\* sequence numbers 0, 1, ... in ascending order, one each; a step of
\* BulkSending takes no byte from the sender's line, and writes the DATA
\* frame of the next sequence number or, after that of total_chunks-1, the
\* first END; after BulkSending the first total_chunks frames written are
\* those of 0..total_chunks-1, the next is the END, and no frame of the bulk
\* pass follows.
C22_BulkThenEnd ==
    [][/\ spc = "BulkSending" =>
             /\ ~(Len(r2s') < Len(r2s))
             /\ Len(sent) = bulk_seq /\ bulk_seq <= total_chunks
             /\ \A k \in DOMAIN sent : IsBulkData(k, k - 1)
             /\ sent' # sent =>
                   IF bulk_seq < total_chunks
                   THEN /\ spc' = "BulkSending"
                        /\ sent' = Append(sent, Sent("bulk", 0,
                                                     BulkFrame(bulk_seq)))
                   ELSE /\ spc' = "AwaitingNack"
                        /\ sent' = Append(sent, Sent("end", 0,
                                                     EndPacket(file_id)))
       /\ spc \in {"AwaitingNack", "Complete", "Failed"} =>
             /\ Len(sent) > total_chunks
             /\ \A k \in 1..total_chunks : IsBulkData(k, k - 1)
             /\ sent[total_chunks + 1].what = "end"
             /\ SentType(sent[total_chunks + 1]) = PKT_END
             /\ \A k \in DOMAIN sent :
                   k > total_chunks + 1 => sent[k].what # "bulk"
      ]_vars
\* the five DATA frames of the bulk pass are out while bytes of the receiver
\* wait, unread, on the sender's line
C22_Witness ==
    /\ spc = "BulkSending"
    /\ total_chunks = 5 /\ bulk_seq = total_chunks /\ Len(sent) = 5
    /\ r2s # << >> /\ nack_log # << >>

\* the sender is at the deadline of a NACK wait
AtNackDeadline == spc = "AwaitingNack" /\ ~WaitLoopCondition(s_elapsed)
\* the last frame the sender wrote
LastSent == sent[Len(sent)]

\* C23: the step the sender takes at the deadline of a NACK wait writes,
\* when another pass of the retry loop is left, one END frame for the
\* file_id and nothing else, and starts the next wait; when none is left it
\* writes nothing and send_image ends in Failed; and no wait reads after
\* its deadline.
C23_TimeoutResendsEnd ==
    [][AtNackDeadline =>
          /\ r2s' = r2s \/ Len(r2s') > Len(r2s)
          /\ svars' # svars =>
                IF retry_round < MAX_RETRY_ROUNDS - 1
                THEN /\ Len(sent') = Len(sent) + 1
                     /\ SubSeq(sent', 1, Len(sent)) = sent
                     /\ SentType(sent'[Len(sent')]) = PKT_END
                     /\ SentFileId(sent'[Len(sent')]) = file_id
                     /\ s2r' = s2r \o sent'[Len(sent')].pkt
                     /\ spc' = "AwaitingNack" /\ s_elapsed' = 0
                     /\ waits' = waits + 1
                     /\ retry_round' = retry_round + 1
                ELSE /\ sent' = sent /\ s2r' = s2r
                     /\ spc' = "Failed"
      ]_vars
\* the first NACK wait timed out: the END was written again, alone, and the
\* second wait has begun
C23_Witness ==
    /\ spc = "AwaitingNack" /\ waits = 2 /\ s_elapsed = 0
    /\ Len(sent) = total_chunks + 2
    /\ SentType(LastSent) = PKT_END /\ LastSent.round = 1
    /\ s_pkt = << >>

\* the step answers a NACK with a list: it writes the ACK first
Retransmits ==
    /\ spc = "AwaitingNack"
    /\ Len(sent') > Len(sent)
    /\ SentType(sent'[Len(sent) + 1]) = PKT_ACK

\* C24: a step that retransmits ends with one END frame written last and
\* with the sender in the next NACK wait; it never ends in Failed or in
\* Complete.
C24_WaitAfterRetransmit ==
    [][Retransmits =>
          /\ SentType(sent'[Len(sent')]) = PKT_END
          /\ \A k \in (Len(sent) + 1)..(Len(sent') - 1) :
                SentType(sent'[k]) # PKT_END
          /\ spc' = "AwaitingNack"
          /\ waits' = waits + 1 /\ s_elapsed' = 0
      ]_vars

\* the sequence numbers whose two bytes are in the NACK pkt, in its order
RequestedSeqs(pkt) ==
    LET idx == SelectSeq([j \in 1..NackCount(pkt) |-> j],
                         LAMBDA j : 11 + 2 * j <= Len(pkt))
    IN  [k \in DOMAIN idx |-> U16(pkt[10 + 2 * idx[k]], pkt[11 + 2 * idx[k]])]
\* the frames a step writes
Written == SubSeq(sent', Len(sent) + 1, Len(sent'))

\* C39: a step that retransmits writes, for the requested sequence numbers
\* below total_chunks and in the order of the request, DATA frames that are
\* byte for byte those of the bulk pass; for a requested sequence number at
\* or above total_chunks it writes no frame, and the step still ends with
\* the END frame.
C39_RetransmitEqualsBulk ==
    [][Retransmits =>
          LET data == SelectSeq(Written, LAMBDA e : SentType(e) = PKT_DATA)
              valid == SelectSeq(RequestedSeqs(s_pkt'),
                                 LAMBDA seq : seq < total_chunks)
          IN  /\ Len(data) = Len(valid)
              /\ \A k \in DOMAIN data :
                    /\ SentSeq(data[k]) = valid[k]
                    /\ \E j \in DOMAIN sent :
                          /\ IsBulkData(j, valid[k])
                          /\ sent[j].pkt = data[k].pkt
              /\ SentType(sent'[Len(sent')]) = PKT_END
      ]_vars
\* a NACK that lists a chunk of the file and a sequence number beyond its
\* last chunk was answered with the one DATA frame
C39_Witness ==
    /\ IsNackFor(s_pkt, file_id)
    /\ \E seqs \in {RequestedSeqs(s_pkt)} :
          /\ \E k \in DOMAIN seqs : seqs[k] >= total_chunks
          /\ \E k \in DOMAIN seqs : seqs[k] < total_chunks
    /\ Cardinality({k \in DOMAIN sent : sent[k].what = "retx"}) = 1

====
